---------------------------- MODULE Spec2Model ----------------------------
(***************************************************************************)
(* A model of the CS2 kill-bonus analysis pipeline:                        *)
(*   bonus_finder.py      synchronized CT money-gain detection             *)
(*   equipment_finder.py  equipment snapshots at the next round's freeze   *)
(*                        end, with the qualification predicate            *)
(*   kills_compile.py     kill attribution to purchased weapons            *)
(*   util_compile.py      utility damage / flash attribution               *)
(* together with the two weapon-name canonicalizers and the round-index    *)
(* lookups (get_round_bounds, find_freeze_end_tick).                       *)
(*                                                                         *)
(* Python strings are TLA+ strings (TLC treats them as character           *)
(* sequences), Python lists are sequences, None is the value None below.   *)
(***************************************************************************)
EXTENDS Integers, Sequences, FiniteSets, TLC

VARIABLES
    pc,                   \* position of main.main in its chain of stages
    samples,              \* parse_ticks: tick -> user_id -> row (or NoRow)
    round_start_events,   \* parse_event("round_start"): the set of its ticks
    freeze_end_events,    \* parse_event("round_freeze_end"): the set of its ticks
    death_events,         \* parse_event("player_death"): sequence of rows
    hurt_events,          \* parse_event("player_hurt"): sequence of rows
    player_blind_events,  \* parse_event("player_blind"): sequence of rows
    bonus_outcome,        \* what analyze_all_demos did for the demo
    bonus_results,        \* detailed_results written by bonus_finder
    equipment_log,        \* per bonus event: the branch analyze_equipment_after_bonus took
    equipment_results,    \* results of analyze_equipment_after_bonus
    kills_results,        \* results of analyze_kills_with_purchased_weapons
    utility_results,      \* results of analyze_utility_impact_with_purchased_items
    canon,                \* a canonicalizer call under observation
    lookup,               \* a round-index lookup under observation
    batch,                \* the run of main.main: its inputs' condition, the
                          \* stages started, the exit status
    files                 \* a save loop: existing_filenames and the names it returned

vars == <<pc, samples, round_start_events, freeze_end_events, death_events,
          hurt_events, player_blind_events, bonus_outcome, bonus_results,
          equipment_log, equipment_results, kills_results, utility_results,
          canon, lookup, batch, files>>

\* Python's None where an integer (a tick) is expected.
None == -1

-----------------------------------------------------------------------------
(* Strings *)

UpperChars == "ABCDEFGHIJKLMNOPQRSTUVWXYZ"
LowerChars == "abcdefghijklmnopqrstuvwxyz"

\* str.lower() on one character.
LowerChar(c) ==
    IF \E i \in 1..Len(UpperChars) : SubSeq(UpperChars, i, i) = c
    THEN LET i == CHOOSE j \in 1..Len(UpperChars) : SubSeq(UpperChars, j, j) = c
         IN  SubSeq(LowerChars, i, i)
    ELSE c

\* str.lower()
RECURSIVE str_lower(_)
str_lower(s) ==
    IF Len(s) = 0 THEN "" ELSE LowerChar(SubSeq(s, 1, 1)) \o str_lower(Tail(s))

\* str.replace(ch, "") for a one-character ch.
RECURSIVE str_remove(_, _)
str_remove(s, ch) ==
    IF Len(s) = 0 THEN ""
    ELSE (IF SubSeq(s, 1, 1) = ch THEN "" ELSE SubSeq(s, 1, 1)) \o str_remove(Tail(s), ch)

\* Python's `a in b` on strings: a is a contiguous substring of b.
str_in(a, b) ==
    \E i \in 0..(Len(b) - Len(a)) : SubSeq(b, i + 1, i + Len(a)) = a

\* dict.get(key, default)
dict_get(d, key, default) == IF key \in DOMAIN d THEN d[key] ELSE default

\* weapon_name.lower().replace("-", "").replace(" ", "")
fallback_token(weapon_name) ==
    str_remove(str_remove(str_lower(weapon_name), "-"), " ")

-----------------------------------------------------------------------------
(* Weapon canonicalizers: kills_compile.normalize_weapon_name and           *)
(* util_compile.normalize_weapon_name                                       *)

\* kills_compile.py, weapon_mapping: the entries for firearms and grenades
kills_gun_mapping ==
       ("USP-S" :> "usp_silencer")
    @@ ("M4A4" :> "m4a1")
    @@ ("M4A1-S" :> "m4a1_silencer")
    @@ ("AK-47" :> "ak47")
    @@ ("AWP" :> "awp")
    @@ ("Desert Eagle" :> "deagle")
    @@ ("Glock-18" :> "glock")
    @@ ("P250" :> "p250")
    @@ ("Five-SeveN" :> "fiveseven")
    @@ ("Tec-9" :> "tec9")
    @@ ("CZ75-Auto" :> "cz75a")
    @@ ("Dual Berettas" :> "elite")
    @@ ("P2000" :> "hkp2000")
    @@ ("R8 Revolver" :> "revolver")
    @@ ("Nova" :> "nova")
    @@ ("XM1014" :> "xm1014")
    @@ ("Sawed-Off" :> "sawedoff")
    @@ ("MAG-7" :> "mag7")
    @@ ("M249" :> "m249")
    @@ ("Negev" :> "negev")
    @@ ("MAC-10" :> "mac10")
    @@ ("MP9" :> "mp9")
    @@ ("MP7" :> "mp7")
    @@ ("UMP-45" :> "ump45")
    @@ ("P90" :> "p90")
    @@ ("PP-Bizon" :> "bizon")
    @@ ("MP5-SD" :> "mp5sd")
    @@ ("FAMAS" :> "famas")
    @@ ("Galil AR" :> "galilar")
    @@ ("SSG 08" :> "ssg08")
    @@ ("SG 553" :> "sg556")
    @@ ("AUG" :> "aug")
    @@ ("G3SG1" :> "g3sg1")
    @@ ("SCAR-20" :> "scar20")
    @@ ("HE Grenade" :> "hegrenade")
    @@ ("Flashbang" :> "flashbang")
    @@ ("Smoke Grenade" :> "smokegrenade")
    @@ ("Incendiary Grenade" :> "incgrenade")
    @@ ("Molotov" :> "molotov")
    @@ ("Decoy Grenade" :> "decoy")

\* The knife entries with the token capitalized.
kills_knife_mapping_capitalized ==
    [k \in {"Butterfly Knife", "Karambit", "Bayonet", "M9 Bayonet", "Huntsman Knife",
            "Falchion Knife", "Bowie Knife", "Shadow Daggers", "Gut Knife", "Flip Knife"}
        |-> "Knife"]

\* kills_compile.py, weapon_mapping: "Knives are typically just "knife" in
\* kill events"
kills_knife_mapping ==
       ("Butterfly Knife" :> "knife")
    @@ ("Karambit" :> "knife")
    @@ ("Bayonet" :> "knife")
    @@ ("M9 Bayonet" :> "knife")
    @@ ("Huntsman Knife" :> "knife")
    @@ ("Falchion Knife" :> "knife")
    @@ ("Bowie Knife" :> "knife")
    @@ ("Shadow Daggers" :> "knife")
    @@ ("Gut Knife" :> "knife")
    @@ ("Flip Knife" :> "knife")

\* kills_compile.py, weapon_mapping
kills_weapon_mapping == kills_gun_mapping @@ kills_knife_mapping

\* kills_compile.normalize_weapon_name
kills_normalize_weapon_name(weapon_name) ==
    dict_get(kills_weapon_mapping, weapon_name, fallback_token(weapon_name))

\* util_compile.py, weapon_mapping
util_weapon_mapping ==
       ("HE Grenade" :> "hegrenade")
    @@ ("High Explosive Grenade" :> "hegrenade")
    @@ ("Flashbang" :> "flashbang")
    @@ ("Smoke Grenade" :> "smokegrenade")
    @@ ("Incendiary Grenade" :> "incgrenade")
    @@ ("Molotov" :> "molotov")
    @@ ("Decoy Grenade" :> "decoy")

\* util_compile.normalize_weapon_name
util_normalize_weapon_name(weapon_name) ==
    dict_get(util_weapon_mapping, weapon_name, fallback_token(weapon_name))

\* The canonicalizer of one of the two modules.
normalize_weapon_name(module, weapon_name) ==
    IF module = "kills" THEN kills_normalize_weapon_name(weapon_name)
    ELSE util_normalize_weapon_name(weapon_name)

-----------------------------------------------------------------------------
(* The telemetry of one demo, as the parser hands it out                    *)

\* Bound: the user ids of the demo are 1..NumPlayers.
NumPlayers == 6
Players == 1..NumPlayers

\* No row for this player at this tick.
NoRow == [absent |-> TRUE]

\* The elements of a finite set of integers, ascending.
RECURSIVE sorted(_)
sorted(S) ==
    IF S = {} THEN <<>>
    ELSE LET m == CHOOSE x \in S : \A y \in S : x <= y
         IN  <<m>> \o sorted(S \ {m})

\* Concatenation of a sequence of sequences.
RECURSIVE flatten(_)
flatten(ss) == IF ss = <<>> THEN <<>> ELSE Head(ss) \o flatten(Tail(ss))

\* Python truthiness of a tick or None: None and 0 are falsy.
truthy(x) == x /= None /\ x /= 0

\* parser.parse_ticks(fields, ticks=ticks): one row per (player, tick), for the
\* ticks at which the player is in the demo.
parse_ticks(ticks) ==
    { [tick                |-> x[1],
       user_id             |-> x[2],
       team_name           |-> samples[x[1]][x[2]].team_name,
       balance             |-> samples[x[1]][x[2]].balance,
       inventory           |-> samples[x[1]][x[2]].inventory,
       total_rounds_played |-> samples[x[1]][x[2]].total_rounds_played] :
      x \in { y \in (ticks \cap DOMAIN samples) \X Players : samples[y[1]][y[2]] /= NoRow } }

\* round_df.groupby("tick")["total_rounds_played"].first(): the round of the
\* first row of each tick that has rows, as a function of the tick.
round_df(ticks) ==
    LET rows == parse_ticks(ticks)
        first(t) == CHOOSE r \in rows :
                        /\ r.tick = t
                        /\ \A q \in rows : q.tick = t => r.user_id <= q.user_id
    IN  [t \in {r.tick : r \in rows} |-> first(t).total_rounds_played]

-----------------------------------------------------------------------------
(* The batch: main.main, the loops of the stages and what fails in them     *)

\* A run on a readable demo with nothing failing, before main.main starts.
\*   dir            "missing": no ./demos; "empty": no .dem file in it; "files"
\*   readable       FALSE: DemoParser cannot read the demo (the detection
\*                  stage raises on it)
\*   sibling        another match of the batch, handled before the demo in a
\*                  stage's loop: "corrupt" is a .dem file the parser cannot
\*                  read; "stale" is a match whose analysis files of an
\*                  earlier run are on disk while its .dem file is gone
\*   freeze_raises  parse_event("round_freeze_end") raises on the demo
\*   equip_raises   parse_ticks with the equipment fields raises on the demo
\*   ran            the stages main.main has started
\*   exit           the value main.main returned, None before it returns
batch_idle ==
    [dir |-> "files", readable |-> TRUE, sibling |-> "none",
     freeze_raises |-> FALSE, equip_raises |-> FALSE, ran |-> {}, exit |-> None]

\* main.main goes on to the stages when ./demos exists and holds a .dem file.
has_input_dir_exists(dir) == dir /= "missing"

has_input(dir) == dir /= "missing" /\ dir /= "empty"

\* The loop left at the first item that raises.
loop_reaches_until_failure(n, failing) ==
    { i \in 1..n : \A j \in failing : i <= j }

\* The items a loop over items 1..n gets to when the items of `failing`
\* raise: the try statement is inside the loop body, so all of them.
loop_reaches(n, failing) == 1..n

\* The sibling match raises in the detection stage when it is corrupt
\* (get_match_info opens it), and in the later stages when it is stale
\* (DemoParser(demo_file) on a file that is gone).
sibling_fails(stage) ==
    \/ batch.sibling = "corrupt" /\ stage = "bonus"
    \/ batch.sibling = "stale" /\ stage /= "bonus"

\* The stage's loop over the matches gets to the demo.
demo_reached(stage) ==
    IF sibling_fails(stage) THEN 2 \in loop_reaches(2, {1}) ELSE 1 \in loop_reaches(1, {})

\* The phases with kills and utility analysis swapped.
phase_after_utility_first(phase) ==
    CASE phase = "bonus" -> "equipment"
      [] phase = "equipment" -> "utility"
      [] phase = "utility" -> "kills"
      [] phase = "kills" -> "combine"
      [] phase = "combine" -> "done"

\* The phase main.main goes on to when a phase has returned: bonus analysis,
\* equipment analysis, kills analysis, utility analysis, combination.
phase_after(phase) ==
    CASE phase = "bonus" -> "equipment"
      [] phase = "equipment" -> "kills"
      [] phase = "kills" -> "utility"
      [] phase = "utility" -> "combine"
      [] phase = "combine" -> "done"

\* main.main before its stages: the checks of ./demos.
MainStart ==
    /\ pc = "main"
    /\ IF has_input(batch.dir)
       THEN /\ pc' = "bonus"
            /\ batch' = batch
       ELSE /\ pc' = "done"
            /\ batch' = [batch EXCEPT !.exit = 1]
    /\ UNCHANGED <<samples, round_start_events, freeze_end_events, death_events,
                   hurt_events, player_blind_events, bonus_outcome, bonus_results,
                   equipment_log, equipment_results, kills_results, utility_results,
                   canon, lookup, files>>

\* main.main after its stages: phase 5 loads the analysis files, writes the
\* combined report and returns 0.
CombineResults ==
    /\ pc = "combine"
    /\ pc' = phase_after("combine")
    /\ batch' = [batch EXCEPT !.exit = 0]
    /\ UNCHANGED <<samples, round_start_events, freeze_end_events, death_events,
                   hurt_events, player_blind_events, bonus_outcome, bonus_results,
                   equipment_log, equipment_results, kills_results, utility_results,
                   canon, lookup, files>>

-----------------------------------------------------------------------------
(* bonus_finder.py: synchronized economic event detection                   *)

\* The team size the detector requires (bonus_finder.py, valid_ticks).
TeamSize == 5
\* The inclusive gain window (bonus_finder.py, money_gain filter).
GainMin == 50
GainMax == 250

\* df[df["team_name"] == "CT"]
ct_df == { r \in parse_ticks(DOMAIN samples) : r.team_name = "CT" }

\* The rows of r's player that precede r in sort_values(["user_id", "tick"]).
rows_before(df, r) == { q \in df : q.user_id = r.user_id /\ q.tick < r.tick }

\* groupby("user_id")["balance"].shift(1): NaN (here: no row) for a player's first row.
has_balance_prev(df, r) == rows_before(df, r) /= {}
balance_prev(df, r) ==
    (CHOOSE q \in rows_before(df, r) :
        \A q2 \in rows_before(df, r) : q2.tick <= q.tick).balance

\* The window with its lower end excluded.
in_gain_window_lower_open(g) == g > GainMin /\ g <= GainMax

\* (money_gain >= 50) & (money_gain <= 250)
in_gain_window(g) == g >= GainMin /\ g <= GainMax

\* The frame with its money_gain column (balance - balance_prev), after
\* dropna(subset=["balance_prev"]) and the gain filter.
gain_df(df) ==
    LET with_prev == { r \in df : has_balance_prev(df, r) }
        with_gain == { r @@ [money_gain |-> r.balance - balance_prev(df, r)] : r \in with_prev }
    IN  { r \in with_gain : in_gain_window(r.money_gain) }

\* One row of tick_analysis: the aggregation of the rows of tick t, whose
\* lists keep the order of the sorted frame (ascending user_id).
tick_analysis_row(gdf, t) ==
    LET group == { r \in gdf : r.tick = t }
        users == sorted({ r.user_id : r \in group })
        rows == [i \in 1..Len(users) |-> CHOOSE r \in group : r.user_id = users[i]]
    IN  [tick              |-> t,
         ct_player_count   |-> Cardinality(group),
         players_with_data |-> Cardinality(group),
         players_with_gain |-> Cardinality({ r \in group : r.money_gain > 0 }),
         money_gains       |-> [i \in 1..Len(users) |-> rows[i].money_gain],
         player_names      |-> users,
         money_amounts     |-> [i \in 1..Len(users) |-> rows[i].balance],
         round_number      |-> rows[1].total_rounds_played]

\* The test with the snapshot threshold 4 for the team size.
is_valid_tick_four(ta) == ta.ct_player_count >= 4 /\ ta.players_with_gain >= 4

\* (ct_player_count == 5) & (players_with_gain == 5)
is_valid_tick(ta) == ta.ct_player_count = TeamSize /\ ta.players_with_gain = TeamSize

\* find_ct_money_gain_ticks: the valid rows of tick_analysis, ascending tick.
find_ct_money_gain_ticks(df) ==
    LET gdf == gain_df(df)
        ticks == sorted({ r.tick : r \in gdf })
    IN  SelectSeq([i \in 1..Len(ticks) |-> tick_analysis_row(gdf, ticks[i])], is_valid_tick)

\* analyze_all_demos: one detailed result per valid tick.
detailed_results(valid_ticks) ==
    [i \in 1..Len(valid_ticks) |->
        [tick            |-> valid_ticks[i].tick,
         round_number    |-> valid_ticks[i].round_number,
         money_gain      |-> valid_ticks[i].money_gains[1],
         player_names    |-> valid_ticks[i].player_names,
         player_balances |-> valid_ticks[i].money_amounts]]

\* analyze_all_demos for the demo. With no CT row find_ct_money_gain_ticks
\* returns the list [], whose `.empty` raises: the demo's except branch runs
\* and no file is written.
AnalyzeAllDemos ==
    /\ pc = "bonus"
    /\ LET df == ct_df
       IN  IF ~demo_reached("bonus")
           THEN /\ bonus_outcome' = "not_reached"
                /\ bonus_results' = <<>>
           ELSE IF ~batch.readable \/ df = {}
           THEN /\ bonus_outcome' = "error"
                /\ bonus_results' = <<>>
           ELSE /\ bonus_outcome' = "saved"
                /\ bonus_results' = detailed_results(find_ct_money_gain_ticks(df))
    /\ pc' = phase_after("bonus")
    /\ batch' = [batch EXCEPT !.ran = @ \cup {"bonus"}]
    /\ UNCHANGED <<samples, round_start_events, freeze_end_events, death_events,
                   hurt_events, player_blind_events, equipment_log,
                   equipment_results, kills_results, utility_results, canon, lookup, files>>

-----------------------------------------------------------------------------
(* equipment_finder.py: equipment snapshots after a bonus event             *)

\* The least number of sampled CT players an event needs (equipment_finder.py).
MinPlayers == 4

\* load_bonus_analysis_results: one entry per detailed result of the saved file
\* (a file with total_occurrences = 0, or no file, gives none).
bonus_data ==
    [i \in 1..Len(bonus_results) |->
        [bonus_tick   |-> bonus_results[i].tick,
         bonus_round  |-> bonus_results[i].round_number,
         bonus_amount |-> bonus_results[i].money_gain,
         player_names |-> bonus_results[i].player_names]]

\* find_freeze_end_tick: the earliest round_freeze_end tick whose sampled
\* round is target_round, or None; None as well from the except branch.
find_freeze_end_tick(target_round) ==
    IF batch.freeze_raises THEN None
    ELSE IF freeze_end_events /= {}
    THEN LET rd == round_df(freeze_end_events)
             target_freeze == { t \in DOMAIN rd : rd[t] = target_round }
         IN  IF target_freeze /= {} THEN sorted(target_freeze)[1] ELSE None
    ELSE None

\* get_equipment_at_tick: one entry per CT row at the tick, in row order;
\* the empty list from the except branch.
\* (current_equip_value is carried along by the code and read by nothing.)
get_equipment_at_tick(tick) ==
    IF batch.equip_raises THEN <<>> ELSE
    LET ct_players == { r \in parse_ticks({tick}) : r.team_name = "CT" }
        users == sorted({ r.user_id : r \in ct_players })
        row(i) == CHOOSE r \in ct_players : r.user_id = users[i]
    IN  [i \in 1..Len(users) |->
            [name         |-> users[i],
             user_id      |-> users[i],
             inventory    |-> row(i).inventory,
             balance      |-> row(i).balance,
             round_number |-> None]]

\* The predicate with >= for >.
qualifies_or_equal(bonus_amount, player) == bonus_amount >= player.balance

\* bonus_amount > player["balance"]
qualifies(bonus_amount, player) == bonus_amount > player.balance

\* sum(player["balance"] for player in equipment_data)
RECURSIVE sum_balance(_)
sum_balance(ps) == IF ps = <<>> THEN 0 ELSE Head(ps).balance + sum_balance(Tail(ps))

\* The equipment data of a bonus event once the caller has stamped the round.
stamped_equipment(freeze_end_tick, target_round) ==
    LET equipment_data == get_equipment_at_tick(freeze_end_tick)
    IN  [i \in 1..Len(equipment_data) |->
            [equipment_data[i] EXCEPT !.round_number = target_round]]

\* The bonus round itself as the target, not the one after it.
target_round_same(bonus_event) == bonus_event.bonus_round

\* target_round = bonus_event["bonus_round"] + 1
target_round_of(bonus_event) == bonus_event.bonus_round + 1

\* The test with the detector's team size for the least number of players.
enough_players_team_size(equipment_data) ==
    equipment_data /= <<>> /\ Len(equipment_data) >= TeamSize

\* equipment_data and len(equipment_data) >= 4
enough_players(equipment_data) ==
    equipment_data /= <<>> /\ Len(equipment_data) >= MinPlayers

\* bonus_event["bonus_round"] + 1 raises when the file holds no round number
\* for the event.
event_raises(bonus_event) == bonus_event.bonus_round = None

\* The branch analyze_equipment_after_bonus takes for one bonus event; "error"
\* is the except branch of the event's try statement.
equipment_branch(bonus_event) ==
    LET target_round == target_round_of(bonus_event)
        freeze_end_tick == find_freeze_end_tick(target_round)
        equipment_data == stamped_equipment(freeze_end_tick, target_round)
        q(player) == qualifies(bonus_event.bonus_amount, player)
    IN  IF event_raises(bonus_event) THEN "error"
        ELSE IF ~truthy(freeze_end_tick) THEN "no_freeze_end_tick"
        ELSE IF ~enough_players(equipment_data) THEN "insufficient_data"
        ELSE IF SelectSeq(equipment_data, q) = <<>> THEN "filtered_out"
        ELSE "included"

\* The result with every sampled player in equipment_data.
equipment_result_unfiltered(bonus_event) ==
    LET target_round == target_round_of(bonus_event)
        freeze_end_tick == find_freeze_end_tick(target_round)
        equipment_data == stamped_equipment(freeze_end_tick, target_round)
        q(player) == qualifies(bonus_event.bonus_amount, player)
        nq(player) == ~qualifies(bonus_event.bonus_amount, player)
    IN  [bonus_event              |-> bonus_event,
         analysis_round           |-> target_round,
         freeze_end_tick          |-> freeze_end_tick,
         equipment_data           |-> equipment_data,
         total_remaining_balance  |-> sum_balance(equipment_data),
         qualifying_players_count |-> Len(SelectSeq(equipment_data, q)),
         filtered_players_count   |-> Len(SelectSeq(equipment_data, nq))]

\* The result appended for an included bonus event.
equipment_result(bonus_event) ==
    LET target_round == target_round_of(bonus_event)
        freeze_end_tick == find_freeze_end_tick(target_round)
        equipment_data == stamped_equipment(freeze_end_tick, target_round)
        q(player) == qualifies(bonus_event.bonus_amount, player)
        nq(player) == ~qualifies(bonus_event.bonus_amount, player)
    IN  [bonus_event              |-> bonus_event,
         analysis_round           |-> target_round,
         freeze_end_tick          |-> freeze_end_tick,
         equipment_data           |-> SelectSeq(equipment_data, q),
         total_remaining_balance  |-> sum_balance(equipment_data),
         qualifying_players_count |-> Len(SelectSeq(equipment_data, q)),
         filtered_players_count   |-> Len(SelectSeq(equipment_data, nq))]

\* The events of `data` the loops of analyze_equipment_after_bonus get to:
\* none when the loop over the matches does not get to the demo.
events_reached(data) ==
    IF demo_reached("equipment")
    THEN loop_reaches(Len(data), { i \in 1..Len(data) : event_raises(data[i]) })
    ELSE {}

\* What becomes of each bonus event.
equipment_outcomes(data) ==
    [i \in 1..Len(data) |->
        IF i \in events_reached(data) THEN equipment_branch(data[i]) ELSE "not_reached"]

\* analyze_equipment_after_bonus
analyze_equipment_after_bonus(data) ==
    LET outcomes == equipment_outcomes(data)
        events == { i \in 1..Len(data) : outcomes[i] = "included" }
        order == sorted(events)
    IN  [i \in 1..Len(order) |-> equipment_result(data[order[i]])]

\* equipment_finder.main: load the bonus events, analyze them, save the results.
AnalyzeEquipment ==
    /\ pc = "equipment"
    /\ equipment_log' = equipment_outcomes(bonus_data)
    /\ equipment_results' = analyze_equipment_after_bonus(bonus_data)
    /\ pc' = phase_after("equipment")
    /\ batch' = [batch EXCEPT !.ran = @ \cup {"equipment"}]
    /\ UNCHANGED <<samples, round_start_events, freeze_end_events, death_events,
                   hurt_events, player_blind_events, bonus_outcome, bonus_results,
                   kills_results, utility_results, canon, lookup, files>>

\* load_equipment_analysis_results: one entry per player of each saved analysis.
equipment_entries ==
    flatten([i \in 1..Len(equipment_results) |->
        [j \in 1..Len(equipment_results[i].equipment_data) |->
            [round_number    |-> equipment_results[i].analysis_round,
             freeze_end_tick |-> equipment_results[i].freeze_end_tick,
             player_name     |-> equipment_results[i].equipment_data[j].name,
             user_id         |-> equipment_results[i].equipment_data[j].user_id,
             inventory       |-> equipment_results[i].equipment_data[j].inventory,
             balance         |-> equipment_results[i].equipment_data[j].balance,
             bonus_info      |->
                [bonus_round  |-> equipment_results[i].bonus_event.bonus_round,
                 bonus_tick   |-> equipment_results[i].bonus_event.bonus_tick,
                 bonus_amount |-> equipment_results[i].bonus_event.bonus_amount]]]])

-----------------------------------------------------------------------------
(* kills_compile.py: kills with purchased weapons                           *)

\* The filter without its round condition.
is_round_kill_any_round(entry, kill) == kill.attacker_user_id = entry.user_id

\* death_events[(total_rounds_played == round_number) & (attacker_user_id == user_id)]
is_round_kill(entry, kill) ==
    /\ kill.total_rounds_played = entry.round_number
    /\ kill.attacker_user_id = entry.user_id

round_kills(entry) ==
    LET test(kill) == is_round_kill(entry, kill)
    IN  SelectSeq(death_events, test)

\* norm_weapon == kill_weapon or kill_weapon in norm_weapon or norm_weapon in kill_weapon
same_weapon(norm_weapon, kill_weapon) ==
    \/ norm_weapon = kill_weapon
    \/ str_in(kill_weapon, norm_weapon)
    \/ str_in(norm_weapon, kill_weapon)

\* The index of an entry with the kill's token if there is one, of the first
\* matching entry otherwise.
matching_index_exact_first(inventory, raw_weapon) ==
    LET kill_weapon == kills_normalize_weapon_name(raw_weapon)
        exact == { i \in 1..Len(inventory) :
                     kills_normalize_weapon_name(inventory[i]) = kill_weapon }
        hits == { i \in 1..Len(inventory) :
                    same_weapon(kills_normalize_weapon_name(inventory[i]), kill_weapon) }
    IN  IF exact /= {} THEN sorted(exact)[1]
        ELSE IF hits = {} THEN 0 ELSE sorted(hits)[1]

\* The index of the first inventory entry matching the kill's weapon; 0 if none.
matching_index(inventory, raw_weapon) ==
    LET kill_weapon == kills_normalize_weapon_name(raw_weapon)
        hits == { i \in 1..Len(inventory) :
                    same_weapon(kills_normalize_weapon_name(inventory[i]), kill_weapon) }
    IN  IF hits = {} THEN 0 ELSE sorted(hits)[1]

\* kill_data. `index` is the index of the death_events row it was built from;
\* the code does not store it.
kill_data(entry, kill) ==
    [index                 |-> kill.index,
     tick                  |-> kill.tick,
     weapon_used           |-> kill.weapon,
     weapon_from_inventory |-> entry.inventory[matching_index(entry.inventory, kill.weapon)],
     victim_user_id        |-> kill.user_user_id,
     victim_team           |-> kill.user_team_name]

kills_with_purchased_weapons(entry) ==
    LET hit(kill) == matching_index(entry.inventory, kill.weapon) /= 0
        kills == SelectSeq(round_kills(entry), hit)
    IN  [i \in 1..Len(kills) |-> kill_data(entry, kills[i])]

\* int(kill["user_user_id"]) raises on a matched kill whose victim id is
\* missing; the entry's try statement catches it and the entry gets no result.
entry_raises(entry) ==
    \E i \in 1..Len(round_kills(entry)) :
        /\ matching_index(entry.inventory, round_kills(entry)[i].weapon) /= 0
        /\ round_kills(entry)[i].user_user_id = None

\* The result appended for every entry with kills in its round.
has_kills_result_always(entry) == round_kills(entry) /= <<>> /\ ~entry_raises(entry)

\* An entry gets a result when it has kills in its round (`if round_kills.empty:
\* continue`) and one of them matched (`if kills_with_purchased_weapons:`).
has_kills_result(entry) ==
    /\ round_kills(entry) /= <<>>
    /\ ~entry_raises(entry)
    /\ kills_with_purchased_weapons(entry) /= <<>>

kills_result(entry) ==
    [equipment_info |-> entry,
     kills_analysis |->
        [total_kills_in_round         |-> Len(round_kills(entry)),
         kills_with_purchased_weapons |-> Len(kills_with_purchased_weapons(entry)),
         kill_details                 |-> kills_with_purchased_weapons(entry)]]

\* The entries of `equipment_data` the loops of
\* analyze_kills_with_purchased_weapons get to.
entries_reached(equipment_data) ==
    IF demo_reached("kills")
    THEN loop_reaches(Len(equipment_data),
                      { i \in 1..Len(equipment_data) : entry_raises(equipment_data[i]) })
    ELSE {}

\* analyze_kills_with_purchased_weapons: a demo without death events is skipped.
analyze_kills_with_purchased_weapons(equipment_data) ==
    IF death_events = <<>> THEN <<>>
    ELSE LET reached == entries_reached(equipment_data)
             order == sorted({ i \in reached : has_kills_result(equipment_data[i]) })
         IN  [i \in 1..Len(order) |-> kills_result(equipment_data[order[i]])]

\* kills_compile.main
AnalyzeKills ==
    /\ pc = "kills"
    /\ kills_results' = analyze_kills_with_purchased_weapons(equipment_entries)
    /\ pc' = phase_after("kills")
    /\ batch' = [batch EXCEPT !.ran = @ \cup {"kills"}]
    /\ UNCHANGED <<samples, round_start_events, freeze_end_events, death_events,
                   hurt_events, player_blind_events, bonus_outcome, bonus_results,
                   equipment_log, equipment_results, utility_results, canon, lookup, files>>

-----------------------------------------------------------------------------
(* util_compile.py: utility impact with purchased items                     *)

\* The canonical tokens that make an inventory item a utility item.
UtilityTokens == {"hegrenade", "incgrenade", "molotov", "flashbang"}
\* The canonical tokens whose damage is attributed.
DamageTokens == {"hegrenade", "incgrenade", "molotov"}

\* normalized_item in [...] or "grenade" in item.lower()
is_utility_item(item) ==
    \/ util_normalize_weapon_name(item) \in UtilityTokens
    \/ str_in("grenade", str_lower(item))

utility_items(inventory) == SelectSeq(inventory, is_utility_item)

\* [normalize_weapon_name(item) for item in utility_items], as a set
normalized_utility(entry) ==
    LET items == utility_items(entry.inventory)
    IN  { util_normalize_weapon_name(items[i]) : i \in 1..Len(items) }

\* hurt_events[(total_rounds_played == round_number) & (attacker_user_id == user_id)]
is_round_event(entry, event) ==
    /\ event.total_rounds_played = entry.round_number
    /\ event.attacker_user_id = entry.user_id

\* The test without the inventory: any damage of the three tokens.
is_utility_damage_any_inventory(entry, damage_event) ==
    /\ is_round_event(entry, damage_event)
    /\ util_normalize_weapon_name(damage_event.weapon) \in DamageTokens

\* The damage events attributed to the entry.
is_utility_damage(entry, damage_event) ==
    LET normalized_weapon == util_normalize_weapon_name(damage_event.weapon)
    IN  /\ is_round_event(entry, damage_event)
        /\ normalized_weapon \in normalized_utility(entry)
        /\ normalized_weapon \in DamageTokens

\* damage_data. `index` is the index of the hurt_events row; the code does not store it.
damage_data(damage_event) ==
    [index          |-> damage_event.index,
     tick           |-> damage_event.tick,
     weapon_used    |-> damage_event.weapon,
     victim_user_id |-> damage_event.user_user_id,
     victim_team    |-> damage_event.user_team_name,
     health_damage  |-> damage_event.dmg_health,
     armor_damage   |-> damage_event.dmg_armor,
     total_damage   |-> damage_event.dmg_health + damage_event.dmg_armor]

utility_damage(entry) ==
    IF hurt_events /= <<>>
    THEN LET test(e) == is_utility_damage(entry, e)
             events == SelectSeq(hurt_events, test)
         IN  [i \in 1..Len(events) |-> damage_data(events[i])]
    ELSE <<>>

\* The test without the team condition.
is_enemy_blind_any_team(entry, blind_event) == is_round_event(entry, blind_event)

\* The blind events attributed to the entry: the actor's, in the round, of an
\* enemy (user_team_name != attacker_team_name).
is_enemy_blind(entry, blind_event) ==
    /\ is_round_event(entry, blind_event)
    /\ blind_event.user_team_name /= blind_event.attacker_team_name

\* flash_data. `index` is the index of the player_blind_events row.
flash_data(blind_event) ==
    [index          |-> blind_event.index,
     tick           |-> blind_event.tick,
     victim_user_id |-> blind_event.user_user_id,
     victim_team    |-> blind_event.user_team_name,
     blind_duration |-> blind_event.blind_duration]

flash_assists(entry) ==
    IF player_blind_events /= <<>> /\ "flashbang" \in normalized_utility(entry)
    THEN LET test(e) == is_enemy_blind(entry, e)
             events == SelectSeq(player_blind_events, test)
         IN  [i \in 1..Len(events) |-> flash_data(events[i])]
    ELSE <<>>

\* sum(damage["total_damage"] for damage in utility_damage)
RECURSIVE sum_total_damage(_)
sum_total_damage(ds) ==
    IF ds = <<>> THEN 0 ELSE Head(ds).total_damage + sum_total_damage(Tail(ds))

\* The result appended for every entry with utility items.
has_utility_result_always(entry) == utility_items(entry.inventory) /= <<>>

\* An entry gets a result when it has utility items (`if not utility_items:
\* continue`) and an event was attributed (`if utility_damage or flash_assists:`).
has_utility_result(entry) ==
    /\ utility_items(entry.inventory) /= <<>>
    /\ (utility_damage(entry) /= <<>> \/ flash_assists(entry) /= <<>>)

utility_result(entry) ==
    [equipment_info   |-> entry,
     utility_analysis |->
        [utility_items_in_inventory |-> utility_items(entry.inventory),
         total_utility_damage       |-> sum_total_damage(utility_damage(entry)),
         total_enemies_damaged      |->
            Cardinality({ utility_damage(entry)[i].victim_user_id :
                            i \in 1..Len(utility_damage(entry)) }),
         total_enemies_flashed      |-> Len(flash_assists(entry)),
         utility_damage_events      |-> utility_damage(entry),
         flash_assist_events        |-> flash_assists(entry)]]

\* analyze_utility_impact_with_purchased_items
analyze_utility_impact_with_purchased_items(equipment_data) ==
    LET reached(entry) == demo_reached("utility") /\ has_utility_result(entry)
        entries == SelectSeq(equipment_data, reached)
    IN  [i \in 1..Len(entries) |-> utility_result(entries[i])]

\* util_compile.main
AnalyzeUtility ==
    /\ pc = "utility"
    /\ utility_results' = analyze_utility_impact_with_purchased_items(equipment_entries)
    /\ pc' = phase_after("utility")
    /\ batch' = [batch EXCEPT !.ran = @ \cup {"utility"}]
    /\ UNCHANGED <<samples, round_start_events, freeze_end_events, death_events,
                   hurt_events, player_blind_events, bonus_outcome, bonus_results,
                   equipment_log, equipment_results, kills_results, canon, lookup, files>>

-----------------------------------------------------------------------------
(* Round index lookups: kills_compile.get_round_bounds (util_compile holds  *)
(* the same function)                                                       *)

\* "a large tick number" added to start_tick when no next round is found.
LargeTick == 100000

\* The value a call returns: the pair (start_tick, end_tick), whose members
\* may be None, or the bare None of a function that ends without a return.
bounds_pair(start_tick, end_tick) ==
    [shape |-> "pair", start_tick |-> start_tick, end_tick |-> end_tick]
bounds_none == [shape |-> "None", start_tick |-> None, end_tick |-> None]

\* What parser.parse_event hands out for an event that never occurred: an
\* empty DataFrame, or a value that is no DataFrame (util_compile.py guards its
\* own frames with isinstance for that case).
EmptyEventShapes == {"DataFrame", "list"}

\* get_round_bounds. On an empty DataFrame the `if` is skipped and the function
\* ends without a return statement; on a value without `.empty` the except
\* branch returns None, None.
get_round_bounds(empty_as, round_number) ==
    IF round_start_events /= {}
    THEN LET rd == round_df(round_start_events)
             target_round_start == { t \in DOMAIN rd : rd[t] = round_number }
             next_round_start == { t \in DOMAIN rd : rd[t] = round_number + 1 }
             start_tick == sorted(target_round_start)[1]
         IN  IF target_round_start = {} THEN bounds_pair(None, None)
             ELSE IF next_round_start /= {}
                  THEN bounds_pair(start_tick, sorted(next_round_start)[1])
                  ELSE bounds_pair(start_tick, start_tick + LargeTick)
    ELSE IF empty_as = "DataFrame" THEN bounds_none
    ELSE bounds_pair(None, None)

\* Bound: the rounds a lookup asks for, and the rounds sampled, are 0..MaxRound.
MaxRound == 3

\* A call of get_round_bounds on the demo's telemetry.
GetRoundBounds ==
    /\ pc = "lookup"
    /\ \E round_number \in 0..MaxRound, empty_as \in EmptyEventShapes :
          lookup' = [fn           |-> "get_round_bounds",
                     round_number |-> round_number,
                     bounds       |-> get_round_bounds(empty_as, round_number),
                     tick         |-> None]
    /\ UNCHANGED <<pc, samples, round_start_events, freeze_end_events, death_events,
                   hurt_events, player_blind_events, bonus_outcome, bonus_results,
                   equipment_log, equipment_results, kills_results, utility_results,
                   canon, batch, files>>

\* A call of find_freeze_end_tick on the demo's telemetry.
FindFreezeEndTick ==
    /\ pc = "lookup"
    /\ \E target_round \in 0..MaxRound :
          lookup' = [fn           |-> "find_freeze_end_tick",
                     round_number |-> target_round,
                     bounds       |-> bounds_none,
                     tick         |-> find_freeze_end_tick(target_round)]
    /\ UNCHANGED <<pc, samples, round_start_events, freeze_end_events, death_events,
                   hurt_events, player_blind_events, bonus_outcome, bonus_results,
                   equipment_log, equipment_results, kills_results, utility_results,
                   canon, batch, files>>

-----------------------------------------------------------------------------
(* Canonicalizer calls                                                      *)

\* The first call, on the raw name.
Canonicalize ==
    /\ pc = "canon"
    /\ canon.stage = 0
    /\ canon' = [canon EXCEPT !.stage = 1,
                              !.once = normalize_weapon_name(canon.module, canon.name)]
    /\ UNCHANGED <<pc, samples, round_start_events, freeze_end_events, death_events,
                   hurt_events, player_blind_events, bonus_outcome, bonus_results,
                   equipment_log, equipment_results, kills_results, utility_results,
                   lookup, batch, files>>

\* A second call, on the token the first one returned.
Recanonicalize ==
    /\ pc = "canon"
    /\ canon.stage = 1
    /\ canon' = [canon EXCEPT !.stage = 2,
                              !.twice = normalize_weapon_name(canon.module, canon.once)]
    /\ UNCHANGED <<pc, samples, round_start_events, freeze_end_events, death_events,
                   hurt_events, player_blind_events, bonus_outcome, bonus_results,
                   equipment_log, equipment_results, kills_results, utility_results,
                   lookup, batch, files>>

-----------------------------------------------------------------------------
(* The demos the model runs the pipeline on                                 *)

\* A parse_ticks row of a player.
Row(team_name, balance, inventory, total_rounds_played) ==
    [team_name |-> team_name, balance |-> balance, inventory |-> inventory,
     total_rounds_played |-> total_rounds_played]

\* The sampled ticks of a pipeline demo: two consecutive ticks of round 4 and
\* the freeze-end tick of round 5.
SampleTicks == <<999, 1000, 1450>>
\* The round of each sampled tick.
SampleRounds == <<4, 4, 5>>

\* A player's rows at the three sampled ticks, as the table of one demo.
table_of(series) ==
    [t \in { SampleTicks[k] : k \in 1..3 } |->
        [p \in Players |->
            series[p][CHOOSE k \in 1..3 : SampleTicks[k] = t]]]

\* The balance and inventory each CT player of the base demo holds at the
\* freeze end of round 5.
BaseBalance == <<100, 0, 300, 149, 150>>
BaseInventory ==
    << <<"AK-47", "Flashbang">>,
       <<"USP-S", "HE Grenade">>,
       <<"AWP">>,
       <<"M4A1-S", "Molotov", "Karambit">>,
       <<>> >>

\* The rows of a player of the other team: never a gain.
t_series == << Row("TERRORIST", 800, <<>>, 4), Row("TERRORIST", 800, <<>>, 4),
               Row("TERRORIST", 500, <<"AK-47">>, 5) >>

\* The rows of CT player p whose balance rises by `gain` at tick 1000 and who
\* holds `balance` at tick 1450.
ct_series(p, gain, balance) ==
    << Row("CT", 800, <<>>, 4), Row("CT", 800 + gain, <<>>, 4),
       Row("CT", balance, BaseInventory[p], 5) >>

\* The base demo: players 1..5 are CT and gain 150 at tick 1000, the others
\* are on the other team.
base_series ==
    [p \in Players |-> IF p <= 5 THEN ct_series(p, 150, BaseBalance[p]) ELSE t_series]

\* Event rows. index is the row's index in its frame.
death_row(round, attacker, weapon) ==
    [tick |-> IF round = 5 THEN 1470 ELSE 700,
     total_rounds_played |-> round,
     attacker_user_id |-> attacker,
     attacker_team_name |-> IF attacker <= 5 THEN "CT" ELSE "TERRORIST",
     user_user_id |-> IF attacker <= 5 THEN 6 ELSE 1,
     user_team_name |-> IF attacker <= 5 THEN "TERRORIST" ELSE "CT",
     weapon |-> weapon]

hurt_row(round, attacker, weapon) ==
    [tick |-> IF round = 5 THEN 1475 ELSE 705,
     total_rounds_played |-> round,
     attacker_user_id |-> attacker,
     attacker_team_name |-> "CT",
     user_user_id |-> 6,
     user_team_name |-> "TERRORIST",
     weapon |-> weapon,
     dmg_health |-> 20,
     dmg_armor |-> 5]

blind_row(round, attacker, victim) ==
    [tick |-> IF round = 5 THEN 1480 ELSE 710,
     total_rounds_played |-> round,
     attacker_user_id |-> attacker,
     attacker_team_name |-> "CT",
     user_user_id |-> victim,
     user_team_name |-> IF victim <= 5 THEN "CT" ELSE "TERRORIST",
     blind_duration |-> 2]

\* A frame: the rows with their indices.
frame(rows) == [i \in 1..Len(rows) |-> [index |-> i] @@ rows[i]]

\* The sequences over S of length at most n.
seqs_upto(S, n) == UNION { [1..k -> S] : k \in 0..n }

\* Bounds: the number of death, hurt and blind events of a demo.
MaxKills == 2
MaxHurts == 2
MaxBlinds == 2

DeathRows ==
    { death_row(r, a, w) : r \in {3, 5}, a \in {1, 4, 6}, w \in {"ak47", "knife"} }
HurtRows ==
    { hurt_row(r, a, w) : r \in {3, 5}, a \in {2, 4}, w \in {"hegrenade", "molotov", "inferno"} }
BlindRows ==
    { blind_row(r, a, v) : r \in {3, 5}, a \in {1, 2}, v \in {3, 6} }

\* The events of the base demo: player 1 kills player 6 with ak47 at tick 1470
\* of round 5 and blinds player 6 at tick 1480; nobody is hurt by utility.
base_deaths == frame(<< death_row(5, 1, "ak47") >>)
base_blinds == frame(<< blind_row(5, 1, 6) >>)
base_hurts == <<>>

\* The canonicalizer and lookup observers when idle.
canon_idle == [module |-> "kills", name |-> "", stage |-> 0, once |-> "", twice |-> ""]
\* No save loop under observation.
files_idle ==
    [generator |-> "none", existing_filenames |-> {}, written |-> <<>>, demo_files |-> 0]

lookup_idle == [fn |-> "none", round_number |-> 0, bounds |-> bounds_none, tick |-> None]

\* The program at position `at`, before any stage or call, on a demo.
ConfigureSaving(at, table, starts, freezes, deaths, hurts, blinds, call, run, saving) ==
    /\ pc = at
    /\ batch = run
    /\ samples = table
    /\ round_start_events = starts
    /\ freeze_end_events = freezes
    /\ death_events = deaths
    /\ hurt_events = hurts
    /\ player_blind_events = blinds
    /\ bonus_outcome = "pending"
    /\ bonus_results = <<>>
    /\ equipment_log = <<>>
    /\ equipment_results = <<>>
    /\ kills_results = <<>>
    /\ utility_results = <<>>
    /\ canon = call
    /\ lookup = lookup_idle
    /\ files = saving

\* The same with no save loop under observation.
ConfigureBatch(at, table, starts, freezes, deaths, hurts, blinds, call, run) ==
    ConfigureSaving(at, table, starts, freezes, deaths, hurts, blinds, call, run,
                    files_idle)

\* The same with nothing failing in the batch.
Configure(at, table, starts, freezes, deaths, hurts, blinds, call) ==
    ConfigureBatch(at, table, starts, freezes, deaths, hurts, blinds, call, batch_idle)

\* main.main before its first check, on a demo whose round 5 has its freeze
\* end at tick 1450.
Start(series, deaths, hurts, blinds) ==
    Configure("main", table_of(series), {}, {1450}, deaths, hurts, blinds, canon_idle)

\* The base demo.
InitBase == Start(base_series, base_deaths, base_hurts, base_blinds)

\* Demos that differ in the balance series: players 1..4 share a gain, every
\* other player follows one of the series below.
DetectSeries ==
    { << NoRow, NoRow, NoRow >>,
      << Row("CT", 800, <<>>, 4), Row("CT", 849, <<>>, 4), Row("CT", 899, <<"AK-47">>, 5) >>,
      << Row("CT", 800, <<>>, 4), Row("CT", 850, <<>>, 4), Row("CT", 100, <<"AK-47">>, 5) >>,
      << Row("CT", 800, <<>>, 4), Row("CT", 1050, <<>>, 4), Row("CT", 1100, <<"AK-47">>, 5) >>,
      << Row("CT", 800, <<>>, 4), Row("CT", 1051, <<>>, 4), Row("CT", 1101, <<"AK-47">>, 5) >>,
      << NoRow, Row("CT", 950, <<>>, 4), Row("CT", 1000, <<"AK-47">>, 5) >>,
      << Row("TERRORIST", 800, <<>>, 4), Row("TERRORIST", 950, <<>>, 4),
         Row("TERRORIST", 1000, <<"AK-47">>, 5) >>,
      << Row("CT", 800, <<>>, 4), Row("TERRORIST", 950, <<>>, 4), Row("CT", 900, <<"AK-47">>, 5) >>,
      << Row("CT", 800, <<>>, 4), NoRow, Row("CT", 900, <<"AK-47">>, 5) >> }

InitDetect ==
    \E gain \in {50, 150, 250}, late \in {50, 251} :
    \E others \in [5..NumPlayers -> DetectSeries] :
        Start([p \in Players |->
                  IF p <= 4
                  THEN << Row("CT", 800, <<>>, 4), Row("CT", 800 + gain, <<>>, 4),
                          Row("CT", 800 + gain + late, BaseInventory[p], 5) >>
                  ELSE others[p]],
              base_deaths, base_hurts, base_blinds)

\* Demos that differ in what the CT players hold at the freeze end.
FreezeBalances == {0, 249, 250, 300}

InitEquip ==
    \E gain \in {150, 250} :
    \E held \in [1..4 -> FreezeBalances \cup {None}] :
        Start([p \in Players |->
                  IF p = 5 THEN ct_series(p, gain, BaseBalance[p])
                  ELSE IF p < 5
                  THEN IF held[p] = None
                       THEN << Row("CT", 800, <<>>, 4), Row("CT", 800 + gain, <<>>, 4), NoRow >>
                       ELSE ct_series(p, gain, held[p])
                  ELSE t_series],
              base_deaths, base_hurts, base_blinds)

\* Demos that differ in their death, hurt or blind events.
InitKills ==
    \E rows \in seqs_upto(DeathRows, MaxKills) :
        Start(base_series, frame(rows), base_hurts, base_blinds)

InitHurts ==
    \E rows \in seqs_upto(HurtRows, MaxHurts) :
        Start(base_series, base_deaths, frame(rows), base_blinds)

InitBlinds ==
    \E rows \in seqs_upto(BlindRows, MaxBlinds) :
        Start(base_series, base_deaths, base_hurts, frame(rows))

\* The base demo in a batch where something is missing or fails.
BatchRuns ==
    [dir : {"missing", "empty", "files"}, readable : BOOLEAN,
     sibling : {"none", "corrupt", "stale"}, freeze_raises : BOOLEAN,
     equip_raises : BOOLEAN, ran : {{}}, exit : {None}]

InitBatch ==
    \E run \in BatchRuns :
        ConfigureBatch("main", table_of(base_series), {}, {1450}, base_deaths, base_hurts,
                       base_blinds, canon_idle, run)

\* The program at the equipment stage with `events` in the bonus analysis
\* file of the demo.
ConfigureFile(table, freezes, deaths, events, sibling) ==
    /\ pc = "equipment"
    /\ samples = table
    /\ round_start_events = {}
    /\ freeze_end_events = freezes
    /\ death_events = deaths
    /\ hurt_events = base_hurts
    /\ player_blind_events = base_blinds
    /\ bonus_outcome = "saved"
    /\ bonus_results = events
    /\ equipment_log = <<>>
    /\ equipment_results = <<>>
    /\ kills_results = <<>>
    /\ utility_results = <<>>
    /\ canon = canon_idle
    /\ lookup = lookup_idle
    /\ files = files_idle
    /\ batch = [batch_idle EXCEPT !.ran = {"bonus"}, !.sibling = sibling]

\* The equipment stage on a bonus analysis file found on disk (the stage
\* reads whatever files ./bonus_analysis holds): the file holds one or two
\* events of round 4, of any gain amount.
FileGains == {1, 250, 301}
FileBalances == {0, 250, 300, 301}

saved_event(k, gain) ==
    [tick            |-> 999 + k,
     round_number    |-> 4,
     money_gain      |-> gain,
     player_names    |-> <<1, 2, 3, 4, 5>>,
     player_balances |-> [p \in 1..5 |-> 800 + gain]]

InitEquipFile ==
    \E gains \in [1..1 -> FileGains] \cup [1..2 -> FileGains] :
    \E held \in [1..3 -> FileBalances] :
        ConfigureFile(table_of([p \in Players |->
                          IF p <= 3 THEN ct_series(p, 150, held[p])
                          ELSE IF p <= 5 THEN ct_series(p, 150, BaseBalance[p])
                          ELSE t_series]),
                      {1450}, base_deaths,
                      [k \in 1..Len(gains) |-> saved_event(k, gains[k])], "none")

\* A file in which an event has no round number (null), next to events that
\* have one.
broken_event(k) == [saved_event(k, 150) EXCEPT !.round_number = None]

\* A death event without a victim id.
poisoned_row(round, attacker, weapon) ==
    [death_row(round, attacker, weapon) EXCEPT !.user_user_id = None]

InitEquipFileBroken ==
    \E broken \in (SUBSET (1..3)) \ {{}} :
    \E sibling \in {"none", "stale"} :
    \E first \in {death_row(5, 1, "ak47"), poisoned_row(5, 1, "ak47")} :
        ConfigureFile(table_of([base_series EXCEPT ![1] = ct_series(1, 150, 0)]),
                      {1450}, frame(<< first, death_row(5, 4, "knife") >>),
                      [k \in 1..3 |-> IF k \in broken THEN broken_event(k)
                                                      ELSE saved_event(k, 150)],
                      sibling)

\* Demos in which some kills of round 5 have no victim id.
InitKillsBroken ==
    \E first \in {death_row(5, 1, "ak47"), poisoned_row(5, 1, "ak47"),
                   poisoned_row(5, 1, "knife")} :
    \E second \in {death_row(5, 4, "knife"), poisoned_row(5, 4, "knife")} :
    \E swap \in BOOLEAN :
    \E sibling \in {"none", "stale"} :
        ConfigureFile(table_of(base_series), {1450},
                      frame(IF swap THEN <<second, first>> ELSE <<first, second>>),
                      << saved_event(1, 150) >>, sibling)

\* A recording that starts at the freeze end of round 5: its first tick is 0.
\* The bonus analysis file of the demo holds an event of round 4.
early_table ==
    [t \in {0} |-> [p \in Players |-> base_series[p][3]]]

InitEarlyFreeze ==
    \E gain \in {150, 250} :
    \E freezes \in {{}, {0}} :
        ConfigureFile(early_table, freezes, base_deaths, << saved_event(1, gain) >>, "none")

\* A demo in which the five CT players gain at two successive ticks of round
\* 4, 1000 and 1001, before the freeze end of round 5.
two_gain_table(first, second) ==
    [t \in {999, 1000, 1001, 1450} |->
        [p \in Players |->
            IF p > 5 THEN (IF t = 1450 THEN t_series[3] ELSE t_series[1])
            ELSE IF t = 999 THEN Row("CT", 800, <<>>, 4)
            ELSE IF t = 1000 THEN Row("CT", 800 + first, <<>>, 4)
            ELSE IF t = 1001 THEN Row("CT", 800 + first + second, <<>>, 4)
            ELSE Row("CT", BaseBalance[p], BaseInventory[p], 5)]]

InitTwoGains ==
    \E first \in {150, 250}, second \in {150, 300} :
        Configure("main", two_gain_table(first, second), {}, {1450}, base_deaths,
                  base_hurts, base_blinds, canon_idle)

\* Demos in which player 4 holds two rifles whose tokens contain one another
\* ("m4a1_silencer" and "m4a1") and kills with one of them or with another
\* weapon.
MatchInventories == { <<"M4A1-S", "M4A4">>, <<"M4A4", "M4A1-S">>, <<"AWP", "M4A4">> }
MatchWeapons == {"m4a1", "m4a1_silencer", "ak47"}

InitMatch ==
    \E inventory \in MatchInventories :
    \E first \in MatchWeapons, second \in MatchWeapons :
        Start([base_series EXCEPT ![4] =
                  << Row("CT", 800, <<>>, 4), Row("CT", 950, <<>>, 4),
                     Row("CT", 149, inventory, 5) >>],
              frame(<< death_row(5, 4, first), death_row(5, 4, second) >>),
              base_hurts, base_blinds)

\* Demos in which player 2 holds one of the inventories below, hurts two
\* players with grenades in round 5, killing the first, and blinds an enemy
\* twice, a teammate and themself. Player 6 is the enemy, player 3 a teammate.
UtilityInventories ==
    { <<"Smoke Grenade">>, <<"HE Grenade", "Flashbang">>,
      <<"Decoy Grenade", "Incendiary Grenade">>, <<"AK-47">>, <<"Flashbang">> }
UtilityWeapons == {"hegrenade", "incgrenade", "smokegrenade"}
UtilityVictims == {6, 3, 2}

\* A hurt event of player 2 in round 5.
utility_hurt(weapon, victim, health) ==
    [hurt_row(5, 2, weapon) EXCEPT
        !.user_user_id = victim,
        !.user_team_name = IF victim <= 5 THEN "CT" ELSE "TERRORIST",
        !.dmg_health = health]

\* A death event of round 5: player 2 kills `victim`.
utility_kill(weapon, victim) ==
    [death_row(5, 2, weapon) EXCEPT
        !.user_user_id = victim,
        !.user_team_name = IF victim <= 5 THEN "CT" ELSE "TERRORIST"]

\* A blind event of player 2 in round 5; a longer one is a later one.
utility_blind(victim, duration) ==
    [blind_row(5, 2, victim) EXCEPT !.blind_duration = duration,
                                    !.tick = 1480 + 20 * duration]

InitUtility ==
    \E inventory \in UtilityInventories :
    \E first \in UtilityWeapons, second \in UtilityWeapons :
    \E victim \in UtilityVictims :
        Start([base_series EXCEPT ![2] =
                  << Row("CT", 800, <<>>, 4), Row("CT", 950, <<>>, 4),
                     Row("CT", 0, inventory, 5) >>],
              frame(<< death_row(5, 1, "ak47"), utility_kill(first, victim) >>),
              frame(<< utility_hurt(first, victim, 20), utility_hurt(second, 6, 30) >>),
              frame(<< utility_blind(6, 2), utility_blind(6, 3), utility_blind(3, 2),
                       utility_blind(2, 1) >>))

Init ==
    \/ InitBase
    \/ InitTwoGains
    \/ InitUtility
    \/ InitMatch
    \/ InitBatch
    \/ InitDetect
    \/ InitEquip
    \/ InitEquipFile
    \/ InitEquipFileBroken
    \/ InitEarlyFreeze
    \/ InitKills
    \/ InitKillsBroken
    \/ InitHurts
    \/ InitBlinds

\* main.main runs the stages one after the other.
Next ==
    \/ MainStart
    \/ AnalyzeAllDemos
    \/ AnalyzeEquipment
    \/ AnalyzeKills
    \/ AnalyzeUtility
    \/ CombineResults

Spec == Init /\ [][Next]_vars

-----------------------------------------------------------------------------
(* Canonicalizer calls on their own                                         *)

\* Bound: the length of the generated names.
MaxNameLen == 3
NameAlphabet == {"K", "k", "-", " ", "_"}

\* The strings over NameAlphabet of length at most n.
RECURSIVE strings_upto(_)
strings_upto(n) ==
    IF n = 0 THEN {""}
    ELSE LET shorter == strings_upto(n - 1)
         IN  shorter \cup { s \o c : s \in shorter, c \in NameAlphabet }

\* Knives that weapon_mapping names, and knives of the game it does not name.
MappedKnifeNames == { k \in DOMAIN kills_weapon_mapping : kills_weapon_mapping[k] = "knife" }
OtherKnifeNames ==
    { "Talon Knife", "Stiletto Knife", "Navaja Knife", "Ursus Knife", "Skeleton Knife",
      "Classic Knife", "Paracord Knife", "Survival Knife", "Nomad Knife", "Kukri Knife" }
KnifeNames == MappedKnifeNames \cup OtherKnifeNames

\* Weapon tokens as kill and damage events carry them, and other item names.
EventTokens ==
    { "ak47", "m4a1", "m4a1_silencer", "usp_silencer", "knife", "knife_t", "hegrenade",
      "inferno", "molotov", "incgrenade", "flashbang", "world", "taser" }
OtherItemNames == { "Zeus x27", "C4 Explosive", "Kevlar Vest", "Defuse Kit", "knife" }

WeaponNames ==
    DOMAIN kills_weapon_mapping \cup DOMAIN util_weapon_mapping
    \cup { kills_weapon_mapping[k] : k \in DOMAIN kills_weapon_mapping }
    \cup KnifeNames \cup EventTokens \cup OtherItemNames \cup strings_upto(MaxNameLen)

InitCanon ==
    \E module \in {"kills", "util"}, name \in WeaponNames :
        Configure("canon", table_of(base_series), {}, {1450}, base_deaths, base_hurts,
                  base_blinds,
                  [module |-> module, name |-> name, stage |-> 0, once |-> "", twice |-> ""])

NextCanon == Canonicalize \/ Recanonicalize

SpecCanon == InitCanon /\ [][NextCanon]_vars

-----------------------------------------------------------------------------
(* Round index lookups on their own                                         *)

\* The ticks of the boundary events of a lookup demo.
RoundTicks == {0, 100, 200}

\* A demo with boundary events at `events`, of kind round_start, round_freeze_end
\* or both, where sampled[t] is the round sampled at tick t (None: no player
\* has a row at t).
InitRounds ==
    \E kind \in {"round_start", "round_freeze_end", "both"} :
    \E events \in SUBSET RoundTicks :
    \E sampled \in [RoundTicks -> (0..MaxRound) \cup {None}] :
        Configure("lookup",
                  [t \in RoundTicks |->
                      [p \in Players |->
                          IF p <= 2 /\ sampled[t] /= None
                          THEN Row("CT", 800, <<>>, sampled[t]) ELSE NoRow]],
                  IF kind = "round_freeze_end" THEN {} ELSE events,
                  IF kind = "round_start" THEN {} ELSE events,
                  <<>>, <<>>, <<>>, canon_idle)

NextRounds == GetRoundBounds \/ FindFreezeEndTick

SpecRounds == InitRounds /\ [][NextRounds]_vars

-----------------------------------------------------------------------------
(* The save loops and their file names                                      *)

\* str.replace(old, new): every occurrence, left to right.
RECURSIVE str_replace(_, _, _)
str_replace(s, old, new) ==
    IF Len(s) < Len(old) THEN s
    ELSE IF SubSeq(s, 1, Len(old)) = old
         THEN new \o str_replace(SubSeq(s, Len(old) + 1, Len(s)), old, new)
         ELSE SubSeq(s, 1, 1) \o str_replace(Tail(s), old, new)

\* The last position of the character ch in s, 0 when it has none.
RECURSIVE last_index(_, _)
last_index(s, ch) ==
    IF Len(s) = 0 THEN 0
    ELSE IF SubSeq(s, Len(s), Len(s)) = ch THEN Len(s)
         ELSE last_index(SubSeq(s, 1, Len(s) - 1), ch)

\* os.path.splitext(os.path.basename(demo_path))[0]
base_name(demo_path) ==
    LET name == SubSeq(demo_path, last_index(demo_path, "/") + 1, Len(demo_path))
        dot  == last_index(name, ".")
    IN  IF dot <= 1 THEN name ELSE SubSeq(name, 1, dot - 1)

\* The base filename of a match: its cleaned team names and map when both
\* teams are known, the demo's own name otherwise; `kind` is the generator's
\* ending ("" for bonus_finder, which ends in _ESL or _analysis).
base_filename(demo_path, match_info, kind) ==
    LET ct_team  == str_replace(str_replace(match_info.ct_team, " ", "_"), "/", "_")
        t_team   == str_replace(str_replace(match_info.t_team, " ", "_"), "/", "_")
        map_name == str_replace(match_info.map, "de_", "")
    IN  IF ct_team /= "Unknown" /\ t_team /= "Unknown"
        THEN ct_team \o "_vs_" \o t_team \o "_" \o map_name \o "_ESL"
             \o (IF kind = "" THEN "" ELSE "_" \o kind \o "_analysis")
        ELSE base_name(demo_path) \o "_"
             \o (IF kind = "" THEN "" ELSE kind \o "_") \o "analysis"

\* The retries the duplicate loop allows: it breaks once counter > 10.
MaxAttempts == 10

\* The while loop of the generators from `filename` with `counter`: it leaves
\* with the first name not in existing_filenames, or with whatever name it
\* holds when counter passes MaxAttempts.
RECURSIVE duplicate_loop(_, _, _, _, _)
duplicate_loop(base, demo_guid, existing_filenames, filename, counter) ==
    IF filename \notin existing_filenames THEN filename
    ELSE LET guid_tail   == IF Len(demo_guid) <= 8 THEN demo_guid
                            ELSE SubSeq(demo_guid, Len(demo_guid) - 7, Len(demo_guid))
             guid_suffix == IF demo_guid /= "Unknown" THEN guid_tail
                            ELSE "demo" \o ToString(counter)
             renamed     == base \o "_" \o guid_suffix \o ".json"
         IN  IF counter + 1 > MaxAttempts THEN renamed
             ELSE duplicate_loop(base, demo_guid, existing_filenames, renamed,
                                 counter + 1)

\* bonus_finder.generate_output_filename
generate_output_filename(demo_path, match_info, existing_filenames) ==
    LET base == base_filename(demo_path, match_info, "")
    IN  duplicate_loop(base, match_info.demo_guid, existing_filenames,
                       base \o ".json", 1)

\* equipment_finder.generate_output_filename, called by save_equipment_analysis
\* with a match_info whose demo_guid is always "Unknown".
generate_equipment_output_filename(demo_path, match_info, existing_filenames) ==
    LET base == base_filename(demo_path, match_info, "equipment")
    IN  duplicate_loop(base, "Unknown", existing_filenames, base \o ".json", 1)

\* kills_compile.generate_kills_output_filename: the suffix is always demoN.
generate_kills_output_filename(demo_path, match_info, existing_filenames) ==
    LET base == base_filename(demo_path, match_info, "kills")
    IN  duplicate_loop(base, "Unknown", existing_filenames, base \o ".json", 1)

\* util_compile.generate_utility_output_filename: the suffix is always demoN.
generate_utility_output_filename(demo_path, match_info, existing_filenames) ==
    LET base == base_filename(demo_path, match_info, "utility")
    IN  duplicate_loop(base, "Unknown", existing_filenames, base \o ".json", 1)

\* The generator a save loop calls.
output_filename(generator, demo_path, match_info, existing_filenames) ==
    CASE generator = "bonus" ->
            generate_output_filename(demo_path, match_info, existing_filenames)
      [] generator = "equipment" ->
            generate_equipment_output_filename(demo_path, match_info, existing_filenames)
      [] generator = "kills" ->
            generate_kills_output_filename(demo_path, match_info, existing_filenames)
      [] OTHER ->
            generate_utility_output_filename(demo_path, match_info, existing_filenames)

\* One turn of a save loop: the name is generated, added to existing_filenames
\* and the match's artifact is written under it.
saved(saving, demo_path, match_info) ==
    LET filename == output_filename(saving.generator, demo_path, match_info,
                                    saving.existing_filenames)
    IN  [saving EXCEPT !.existing_filenames = @ \cup {filename},
                       !.written = Append(@, filename)]

\* The matches a save loop may write.
MaxMatches == 3

\* The k-th .dem file of the demos directory.
demo_path_of(k) == "./demos/m" \o ToString(k) \o ".dem"

\* get_match_info's result for a header; teams and demo_guid are "Unknown" when
\* the header has none.
match_info_of(teams, demo_guid) ==
    [ct_team |-> teams[1], t_team |-> teams[2], map |-> "de_dust2",
     demo_guid |-> demo_guid]

\* A save loop writes the artifact of its next match.  The demos of one run are
\* distinct files of one directory; the header of a demo gives its teams, its
\* map and (to bonus_finder only) its demo_version_guid.
SaveMatch ==
    /\ pc = "names"
    /\ Len(files.written) < files.demo_files
    /\ \E teams \in { <<"Team A", "B/C">>, <<"Unknown", "Unknown">> },
          demo_guid \in { "Unknown", "04a1-7d2c1a3b", "04a1-7d2c1a3c" } :
          files' = saved(files, demo_path_of(Len(files.written) + 1),
                         match_info_of(teams, demo_guid))
    /\ UNCHANGED <<pc, samples, round_start_events, freeze_end_events, death_events,
                   hurt_events, player_blind_events, bonus_outcome, bonus_results,
                   equipment_log, equipment_results, kills_results, utility_results,
                   canon, lookup, batch>>

\* A save loop after `prior` matches of the same two teams on the same map,
\* none with a demo_version_guid in its header.
RECURSIVE after_matches(_, _)
after_matches(generator, prior) ==
    IF prior = 0
    THEN [generator |-> generator, existing_filenames |-> {}, written |-> <<>>,
          demo_files |-> 0]
    ELSE saved(after_matches(generator, prior - 1), demo_path_of(prior),
               match_info_of(<<"Team A", "B/C">>, "Unknown"))

\* The save loop of any of the four stages over a directory of demos, at its
\* start or after the matches that use up a base name and its demoN names.
InitNames ==
    \E generator \in {"bonus", "equipment", "kills", "utility"} :
    \E prior \in {0, MaxAttempts + 1} :
        ConfigureSaving("names", table_of(base_series), {}, {1450}, base_deaths,
                        base_hurts, base_blinds, canon_idle, batch_idle,
                        [after_matches(generator, prior)
                            EXCEPT !.demo_files = prior + MaxMatches])

NextNames == SaveMatch

SpecNames == InitNames /\ [][NextNames]_vars

-----------------------------------------------------------------------------
(* Properties of the pipeline                                               *)

\* The ticks before t at which player p has a CT sample, read off the table.
PriorCT(p, t) ==
    { u \in DOMAIN samples :
        u < t /\ samples[u][p] /= NoRow /\ samples[u][p].team_name = "CT" }

\* The balance of p's latest CT sample before t.
PriorBalance(p, t) ==
    samples[CHOOSE u \in PriorCT(p, t) : \A v \in PriorCT(p, t) : v <= u][p].balance

\* p is a CT player at t with a prior CT sample.
HasGain(p, t) ==
    /\ samples[t][p] /= NoRow
    /\ samples[t][p].team_name = "CT"
    /\ PriorCT(p, t) /= {}

\* The CT players whose gain at t lies in [50, 250].
Gainers(t) ==
    { p \in Players :
        /\ HasGain(p, t)
        /\ samples[t][p].balance - PriorBalance(p, t) >= 50
        /\ samples[t][p].balance - PriorBalance(p, t) <= 250 }

\* The number of events of `results` at tick t.
EventsAt(results, t) == Cardinality({ i \in 1..Len(results) : results[i].tick = t })

C2_KillsRoundScoped ==
    \A i \in 1..Len(kills_results) :
        \A j \in 1..Len(kills_results[i].kills_analysis.kill_details) :
            LET kill == death_events[kills_results[i].kills_analysis.kill_details[j].index]
            IN  /\ kill.total_rounds_played = kills_results[i].equipment_info.round_number
                /\ kill.attacker_user_id = kills_results[i].equipment_info.user_id

\* A snapshot with an attributed kill whose player made another kill with the
\* same weapon in another round, which is not among the attributed ones.
C2_OtherRoundKillLeftOut ==
    \E i \in 1..Len(kills_results) :
        LET details == kills_results[i].kills_analysis.kill_details
            info == kills_results[i].equipment_info
        IN  \E j \in 1..Len(details), m \in 1..Len(death_events) :
                /\ death_events[m].attacker_user_id = info.user_id
                /\ death_events[m].weapon = details[j].weapon_used
                /\ death_events[m].total_rounds_played /= info.round_number
                /\ \A k \in 1..Len(details) : details[k].index /= m

\* The user ids of the snapshots retained for a bonus event.
Retained(bonus_event) ==
    UNION { { equipment_results[i].equipment_data[j].user_id :
                j \in 1..Len(equipment_results[i].equipment_data) } :
            i \in { k \in 1..Len(equipment_results) :
                      equipment_results[k].bonus_event = bonus_event } }

\* The CT players sampled at a tick.
SampledCT(t) ==
    { p \in Players : samples[t][p] /= NoRow /\ samples[t][p].team_name = "CT" }

\* C3: for a bonus event whose players were sampled, a sampled player's
\* snapshot is retained if and only if the event's gain is strictly greater
\* than the player's balance at the snapshot tick.
C3_RetainedIffGainAboveBalance ==
    \A i \in 1..Len(equipment_log) :
        equipment_log[i] \in {"included", "filtered_out"} =>
            LET t == find_freeze_end_tick(bonus_data[i].bonus_round + 1)
            IN  \A p \in SampledCT(t) :
                    p \in Retained(bonus_data[i])
                        <=> bonus_data[i].bonus_amount > samples[t][p].balance

\* Events of gain 250 and 301 analyzed on players holding 300, 250 and 0:
\* 300 and 250 are left out for gain 250, 300 and 0 are retained for gain 301.
C3_BoundaryBalances ==
    /\ Len(equipment_log) = 2
    /\ bonus_data[1].bonus_amount = 250
    /\ bonus_data[2].bonus_amount = 301
    /\ LET t == find_freeze_end_tick(5)
       IN  \E p, q, r \in SampledCT(t) :
              /\ samples[t][p].balance = 300
              /\ samples[t][q].balance = 250
              /\ samples[t][r].balance = 0
              /\ p \notin Retained(bonus_data[1])
              /\ q \notin Retained(bonus_data[1])
              /\ r \in Retained(bonus_data[1])
              /\ p \in Retained(bonus_data[2])
              /\ r \in Retained(bonus_data[2])

\* The demo is in ./demos, the parser reads it and its lookups do not raise.
NothingFails ==
    /\ batch.dir = "files"
    /\ batch.readable
    /\ ~batch.freeze_raises
    /\ ~batch.equip_raises

\* The demo of the end-to-end scenario: the five CT players go from 800 to 950
\* at tick 1000 of round 4, round 5 has its freeze end at tick 1450, where
\* player 1 holds 100 and <<"AK-47", "Flashbang">>; player 1 kills with ak47 at
\* tick 1470 of round 5 and blinds player 6, of the other team, at tick 1480.
ScenarioDemo ==
    /\ NothingFails
    /\ samples = table_of(base_series)
    /\ freeze_end_events = {1450}
    /\ \E m \in 1..Len(death_events) :
          death_events[m] = [index |-> m] @@ death_row(5, 1, "ak47")
    /\ \E m \in 1..Len(player_blind_events) :
          player_blind_events[m] = [index |-> m] @@ blind_row(5, 1, 6)

\* No HE grenade or molotov damage occurred.
NoUtilityDamage ==
    \A m \in 1..Len(hurt_events) :
        hurt_events[m].weapon \notin {"hegrenade", "molotov", "inferno"}

\* C8: on the scenario demo the finished pipeline holds exactly one event
\* (tick 1000, round 4, gain 150); player 1's snapshot at tick 1450 is retained;
\* the ak47 kill at tick 1470 is attributed to "AK-47"; the blind at tick 1480
\* is a flash assist of the same snapshot; and without HE or molotov damage the
\* snapshot's utility record has no damage event.
C8_EndToEndScenario ==
    (ScenarioDemo /\ pc = "done") =>
        /\ Len(bonus_results) = 1
        /\ bonus_results[1].tick = 1000
        /\ bonus_results[1].round_number = 4
        /\ bonus_results[1].money_gain = 150
        /\ Len(equipment_results) = 1
        /\ equipment_results[1].freeze_end_tick = 1450
        /\ equipment_results[1].analysis_round = 5
        /\ \E j \in 1..Len(equipment_results[1].equipment_data) :
              /\ equipment_results[1].equipment_data[j].user_id = 1
              /\ equipment_results[1].equipment_data[j].balance = 100
              /\ equipment_results[1].equipment_data[j].inventory = <<"AK-47", "Flashbang">>
        /\ \E i \in 1..Len(kills_results) :
              /\ kills_results[i].equipment_info.user_id = 1
              /\ kills_results[i].equipment_info.round_number = 5
              /\ \E j \in 1..Len(kills_results[i].kills_analysis.kill_details) :
                    LET kill == kills_results[i].kills_analysis.kill_details[j]
                    IN  /\ kill.tick = 1470
                        /\ kill.weapon_used = "ak47"
                        /\ kill.weapon_from_inventory = "AK-47"
        /\ \E i \in 1..Len(utility_results) :
              /\ utility_results[i].equipment_info.user_id = 1
              /\ utility_results[i].equipment_info.round_number = 5
              /\ \E j \in 1..Len(utility_results[i].utility_analysis.flash_assist_events) :
                    LET flash == utility_results[i].utility_analysis.flash_assist_events[j]
                    IN  flash.tick = 1480 /\ flash.victim_user_id = 6
              /\ NoUtilityDamage =>
                    utility_results[i].utility_analysis.utility_damage_events = <<>>

\* The finished pipeline on the scenario demo with no damage event at all.
C8_ScenarioFinished ==
    /\ ScenarioDemo
    /\ pc = "done"
    /\ hurt_events = <<>>
    /\ Len(death_events) = 1
    /\ Len(player_blind_events) = 1
    /\ Len(utility_results) = 1

\* A kill of the snapshot's player in the snapshot's round with a weapon that
\* matches an item of the snapshot's inventory.
KillAttributable(entry) ==
    \E m \in 1..Len(death_events) :
        /\ death_events[m].total_rounds_played = entry.round_number
        /\ death_events[m].attacker_user_id = entry.user_id
        /\ \E k \in 1..Len(entry.inventory) :
              same_weapon(kills_normalize_weapon_name(entry.inventory[k]),
                          kills_normalize_weapon_name(death_events[m].weapon))

\* The snapshots that have a kills record, and those that have a utility record.
KillsRecorded == { kills_results[i].equipment_info : i \in 1..Len(kills_results) }
UtilityRecorded == { utility_results[i].equipment_info : i \in 1..Len(utility_results) }

\* C9: a kills record exists only for a snapshot with an attributed kill and
\* holds 1 <= kills_with_purchased_weapons <= total_kills_in_round; a utility
\* record exists only with an attributed damage or flash event.
C9_SparseOutput ==
    /\ \A i \in 1..Len(kills_results) :
          LET analysis == kills_results[i].kills_analysis
          IN  /\ KillAttributable(kills_results[i].equipment_info)
              /\ analysis.kill_details /= <<>>
              /\ analysis.kills_with_purchased_weapons = Len(analysis.kill_details)
              /\ 1 <= analysis.kills_with_purchased_weapons
              /\ analysis.kills_with_purchased_weapons <= analysis.total_kills_in_round
    /\ \A i \in 1..Len(utility_results) :
          LET analysis == utility_results[i].utility_analysis
          IN  Len(analysis.utility_damage_events) + Len(analysis.flash_assist_events) >= 1

\* The finished pipeline with a snapshot that made a kill in its round but
\* got no kills record, next to one that got a record, and a snapshot holding
\* a utility item that got no utility record, next to one that got a record.
C9_SnapshotsWithoutRecord ==
    /\ pc = "done"
    /\ kills_results /= <<>>
    /\ utility_results /= <<>>
    /\ \E k \in 1..Len(equipment_entries) :
          /\ round_kills(equipment_entries[k]) /= <<>>
          /\ equipment_entries[k] \notin KillsRecorded
    /\ \E k \in 1..Len(equipment_entries) :
          /\ utility_items(equipment_entries[k].inventory) /= <<>>
          /\ equipment_entries[k] \notin UtilityRecorded

-----------------------------------------------------------------------------
(* Properties of the canonicalizers                                         *)

\* C4: in both modules, canonicalizing the token a first call returned gives
\* the same token again, for names of the table and names of the fallback.
C4_CanonicalizeIdempotent ==
    canon.stage = 2 => canon.twice = canon.once

\* Both calls made on a name of the kills table that the first call changed.
C4_TableNameTwice ==
    /\ canon.stage = 2
    /\ canon.module = "kills"
    /\ canon.name \in DOMAIN kills_weapon_mapping
    /\ canon.once = kills_weapon_mapping[canon.name]
    /\ canon.once /= canon.name

\* C5: every knife name, in the table or not, is canonicalized by
\* kills_compile to the one token "knife".
C5_AllKnivesOneToken ==
    (canon.stage >= 1 /\ canon.module = "kills" /\ canon.name \in KnifeNames) =>
        canon.once = "knife"

-----------------------------------------------------------------------------
(* Properties of the round index lookups                                    *)

\* The rounds sampled at the ticks of an event set, read off the table: the
\* round of the first player with a row at the tick.
RoundAt(t) ==
    samples[t][CHOOSE p \in Players :
                  /\ samples[t][p] /= NoRow
                  /\ \A q \in Players : samples[t][q] /= NoRow => p <= q].total_rounds_played
TicksOfRound(events, round) ==
    { t \in events \cap DOMAIN samples :
        /\ \E p \in Players : samples[t][p] /= NoRow
        /\ RoundAt(t) = round }
RoundsOf(events) == { round \in 0..(MaxRound + 1) : TicksOfRound(events, round) /= {} }

\* The last round that has a round_start event.
IsLastRound(round) == \A other \in RoundsOf(round_start_events) : other <= round

\* C6: for a resolved round that is not the last one, end_tick is the start
\* tick of the next round; start_tick + 100000 is the end_tick of the last
\* round only.
C6_EndIsNextStart ==
    (lookup.fn = "get_round_bounds" /\ lookup.bounds.start_tick /= None) =>
        IF IsLastRound(lookup.round_number)
        THEN lookup.bounds.end_tick = lookup.bounds.start_tick + 100000
        ELSE /\ get_round_bounds("DataFrame", lookup.round_number + 1).start_tick /= None
             /\ lookup.bounds.end_tick = get_round_bounds("DataFrame", lookup.round_number + 1).start_tick

\* C7: the start tick of a resolved round is below its end tick and below the
\* start tick of every later resolved round.
C7_StartsIncrease ==
    (lookup.fn = "get_round_bounds" /\ lookup.bounds.start_tick /= None) =>
        /\ lookup.bounds.start_tick < lookup.bounds.end_tick
        /\ \A later \in RoundsOf(round_start_events) :
              lookup.round_number < later =>
                  lookup.bounds.start_tick < get_round_bounds("DataFrame", later).start_tick

\* C10: for a round without a sampled boundary event find_freeze_end_tick
\* returns None and get_round_bounds returns the pair (None, None); a tick that
\* is returned is the tick of a boundary event sampled in the requested round.
C10_UnresolvedIsNotFound ==
    /\ lookup.fn = "find_freeze_end_tick" =>
          IF TicksOfRound(freeze_end_events, lookup.round_number) = {}
          THEN lookup.tick = None
          ELSE lookup.tick \in TicksOfRound(freeze_end_events, lookup.round_number)
    /\ lookup.fn = "get_round_bounds" =>
          IF TicksOfRound(round_start_events, lookup.round_number) = {}
          THEN lookup.bounds = bounds_pair(None, None)
          ELSE /\ lookup.bounds.shape = "pair"
               /\ lookup.bounds.start_tick
                      \in TicksOfRound(round_start_events, lookup.round_number)

-----------------------------------------------------------------------------
(* Properties of the detector and of the equipment stage                    *)

\* C11: the detector leaves an event at a tick only if exactly 5 CT players
\* have a sample at that tick, with no sixth CT player sampled there.
C11_EventOnlyWithFiveSampled ==
    [][AnalyzeAllDemos =>
        \A i \in 1..Len(bonus_results') :
            Cardinality(SampledCT(bonus_results'[i].tick)) = 5]_vars


-----------------------------------------------------------------------------
(* Properties of the batch                                                   *)

\* The stages main.main runs.
Stages == {"bonus", "equipment", "kills", "utility"}

\* The entry has a result in `results`.
Recorded(results, entry) ==
    \E i \in 1..Len(results) : results[i].equipment_info = entry

\* C12: a match that fails in a stage's loop does not keep the stage from the
\* demo; an event that raises in the equipment stage is the only one without
\* an outcome of its own and every other event is handled; a snapshot that
\* raises in the kills stage does not keep the other snapshots from their
\* records; and every stage and the combination step run whatever failed.
C12_FailureIsolation ==
    /\ "bonus" \in batch.ran => bonus_outcome \in {"saved", "error"}
    /\ "equipment" \in batch.ran =>
          /\ Len(equipment_log) = Len(bonus_data)
          /\ \A i \in 1..Len(bonus_data) :
                IF event_raises(bonus_data[i])
                THEN equipment_log[i] = "error"
                ELSE equipment_log[i] = equipment_branch(bonus_data[i])
          /\ Len(equipment_results) =
                Cardinality({ i \in 1..Len(equipment_log) : equipment_log[i] = "included" })
    /\ "kills" \in batch.ran =>
          \A i \in 1..Len(equipment_entries) :
              has_kills_result(equipment_entries[i]) =>
                  Recorded(kills_results, equipment_entries[i])
    /\ "utility" \in batch.ran =>
          \A i \in 1..Len(equipment_entries) :
              has_utility_result(equipment_entries[i]) =>
                  Recorded(utility_results, equipment_entries[i])
    /\ (pc = "done" /\ has_input(batch.dir)) => batch.ran = Stages /\ batch.exit = 0

\* A finished run in which another match failed in the later stages, the first
\* event of the demo raised and the second was retained, and the snapshot of
\* player 1 raised in the kills stage while the one of player 4 got its record.
C12_FailuresAtEveryScope ==
    /\ pc = "done"
    /\ batch.sibling = "stale"
    /\ Len(equipment_log) = 3
    /\ equipment_log[1] = "error"
    /\ equipment_log[2] = "included"
    /\ \E i \in 1..Len(equipment_entries) :
          /\ equipment_entries[i].user_id = 1
          /\ entry_raises(equipment_entries[i])
          /\ ~Recorded(kills_results, equipment_entries[i])
    /\ \E i \in 1..Len(equipment_entries) :
          /\ equipment_entries[i].user_id = 4
          /\ Recorded(kills_results, equipment_entries[i])


\* C13: main.main returns 1 and starts no stage when ./demos is missing or
\* holds no .dem file; it returns nothing but 0 or 1; and it returns 0 exactly
\* when the four stages and the combination step are through.
C13_ExitStatus ==
    /\ batch.exit \in {None, 0, 1}
    /\ (batch.dir \in {"missing", "empty"} /\ pc /= "main") =>
          /\ pc = "done"
          /\ batch.exit = 1
          /\ batch.ran = {}
          /\ bonus_outcome = "pending"
    /\ (batch.dir = "files" /\ pc = "done") =>
          /\ batch.exit = 0
          /\ batch.ran = Stages
    /\ batch.exit /= None <=> pc = "done"

\* main.main returned on a ./demos directory without a .dem file.
C13_ReturnedOnEmptyDirectory ==
    /\ batch.dir = "empty"
    /\ pc = "done"
    /\ batch.exit = 1
    /\ batch.ran = {}


\* C14: when the parser can read none of the .dem files in the detection
\* stage, no later stage runs and main.main does not return 0.
C14_UnreadableInputAborts ==
    (batch.dir = "files" /\ ~batch.readable /\ "bonus" \in batch.ran) =>
        /\ batch.ran = {"bonus"}
        /\ batch.exit /= 0


-----------------------------------------------------------------------------
(* Properties of the equipment stage                                        *)

\* C15: an event whose freeze-end lookup raised is not logged as an event
\* whose round has no freeze end, and an event whose equipment sampling raised
\* is not logged as an event with too few sampled players.
C15_FailuresDistinctFromAbsence ==
    "equipment" \in batch.ran =>
        \A i \in 1..Len(equipment_log) :
            /\ batch.freeze_raises => equipment_log[i] /= "no_freeze_end_tick"
            /\ (batch.equip_raises /\ ~batch.freeze_raises) =>
                  equipment_log[i] /= "insufficient_data"


\* C16: the gain recorded in an event the detector leaves at a tick is the
\* gain each of the event's participants has at that tick.
C16_RecordedGainIsEveryParticipantsGain ==
    [][AnalyzeAllDemos =>
        \A i \in 1..Len(bonus_results') :
            LET event == bonus_results'[i]
            IN  \A k \in 1..Len(event.player_names) :
                    event.money_gain =
                        samples[event.tick][event.player_names[k]].balance
                            - PriorBalance(event.player_names[k], event.tick)]_vars


\* The freeze-end ticks of the demo whose sampled round is `round`.
FreezeEndsOf(round) ==
    { t \in freeze_end_events \cap DOMAIN samples : RoundAt(t) = round }

\* C17: an event whose lookups did not raise is logged as having no freeze end
\* if and only if the demo has no freeze-end tick in round bonus_round + 1,
\* whatever the tick; otherwise its snapshots are taken at the earliest such
\* tick and stamped with that round.
C17_SkippedIffNoFreezeEnd ==
    ("equipment" \in batch.ran /\ ~batch.freeze_raises /\ ~batch.equip_raises) =>
        /\ \A i \in 1..Len(equipment_log) :
              equipment_log[i] /= "error" =>
                  (equipment_log[i] = "no_freeze_end_tick"
                      <=> FreezeEndsOf(bonus_data[i].bonus_round + 1) = {})
        /\ \A i \in 1..Len(equipment_results) :
              LET result == equipment_results[i]
                  round == result.bonus_event.bonus_round + 1
              IN  /\ result.analysis_round = round
                  /\ result.freeze_end_tick \in FreezeEndsOf(round)
                  /\ \A t \in FreezeEndsOf(round) : result.freeze_end_tick <= t
                  /\ \A j \in 1..Len(result.equipment_data) :
                        result.equipment_data[j].round_number = round


\* The tick at which the snapshots of an event of round `round` are taken.
SnapshotTick(round) ==
    CHOOSE t \in FreezeEndsOf(round) : \A u \in FreezeEndsOf(round) : t <= u

\* The event got as far as the count of the sampled players.
Counted(outcome) == outcome \in {"insufficient_data", "filtered_out", "included"}

\* C18: an event whose snapshot tick was resolved and sampled is skipped for
\* insufficient data if and only if fewer than 4 CT players are sampled at
\* that tick; with 4 or more it goes on to the qualification test.
C18_SkippedIffFewerThanFour ==
    ("equipment" \in batch.ran /\ ~batch.equip_raises) =>
        \A i \in 1..Len(equipment_log) :
            Counted(equipment_log[i]) =>
                LET sampled == Cardinality(SampledCT(SnapshotTick(bonus_data[i].bonus_round + 1)))
                IN  /\ equipment_log[i] = "insufficient_data" <=> sampled < 4
                    /\ equipment_log[i] \in {"filtered_out", "included"} <=> sampled >= 4

\* An event that went on to the qualification test with exactly 4 CT players
\* sampled at its snapshot tick.
C18_ProceedsWithExactlyFour ==
    /\ "equipment" \in batch.ran
    /\ ~batch.equip_raises
    /\ \E i \in 1..Len(equipment_log) :
          /\ equipment_log[i] = "included"
          /\ Cardinality(SampledCT(SnapshotTick(bonus_data[i].bonus_round + 1))) = 4


\* The events of the demo whose snapshot tick was resolved and sampled with
\* fewer than n CT players present.
SnapshotsBelow(log, n) ==
    { i \in 1..Len(log) :
        /\ Counted(log[i])
        /\ Cardinality(SampledCT(SnapshotTick(bonus_data[i].bonus_round + 1))) < n }

\* C19 as stated: with fewer than 5 CT players present, a detection tick
\* yields no event and the event of a snapshot tick yields no snapshots.
C19_DroppedBelowTeamSize ==
    [][/\ (AnalyzeAllDemos /\ batch.readable) =>
              \A t \in DOMAIN samples :
                  Cardinality(SampledCT(t)) < 5 => EventsAt(bonus_results', t) = 0
       /\ (AnalyzeEquipment /\ ~batch.equip_raises) =>
              \A i \in SnapshotsBelow(equipment_log', 5) :
                  equipment_log'[i] = "insufficient_data"]_vars

\* C19, with the threshold the snapshot stage has: a detection tick with fewer
\* than 5 CT players present yields no event; an event whose snapshot tick has
\* fewer than 4 CT players present yields no snapshots.
C19_DroppedBelowThresholds ==
    [][/\ (AnalyzeAllDemos /\ batch.readable) =>
              \A t \in DOMAIN samples :
                  Cardinality(SampledCT(t)) < 5 => EventsAt(bonus_results', t) = 0
       /\ (AnalyzeEquipment /\ ~batch.equip_raises) =>
              /\ \A i \in SnapshotsBelow(equipment_log', 4) :
                    equipment_log'[i] = "insufficient_data"
              /\ SnapshotsBelow(equipment_log', 4) /= {} =>
                    Len(equipment_results') <
                        Cardinality({ i \in 1..Len(equipment_log') : Counted(equipment_log'[i]) })]_vars

\* The event of tick 1000 was dropped in the equipment stage because 3 CT
\* players are present at its snapshot tick, where the detector, with fewer
\* than 5 present, left no event either.
C19_ThreePresentAtSnapshotTick ==
    /\ "equipment" \in batch.ran
    /\ ~batch.equip_raises
    /\ \E i \in 1..Len(equipment_log) :
          /\ equipment_log[i] = "insufficient_data"
          /\ LET t == SnapshotTick(bonus_data[i].bonus_round + 1)
             IN  /\ Cardinality(SampledCT(t)) = 3
                 /\ EventsAt(bonus_results, t) = 0
    /\ equipment_results = <<>>


\* The CT players sampled at tick t whose balance there is under `amount`.
QualifyingAt(t, amount) ==
    { p \in SampledCT(t) : amount > samples[t][p].balance }

\* The user ids of a sequence of snapshots.
UsersOf(snapshots) == { snapshots[j].user_id : j \in 1..Len(snapshots) }

\* C20: an event none of whose sampled players qualifies has no result and no
\* snapshot reaches the kills and utility stages for it; the result of any
\* other event holds exactly the qualifying players' snapshots, its two counts
\* add up to the number of sampled players, and every snapshot the later stages
\* work on or record belongs to a qualifying player.
C20_OnlyQualifyingSnapshots ==
    ("equipment" \in batch.ran /\ ~batch.equip_raises) =>
        /\ \A i \in 1..Len(equipment_log) :
              equipment_log[i] \in {"filtered_out", "included"} =>
                  (equipment_log[i] = "filtered_out"
                      <=> QualifyingAt(SnapshotTick(bonus_data[i].bonus_round + 1),
                                       bonus_data[i].bonus_amount) = {})
        /\ Len(equipment_results) =
              Cardinality({ i \in 1..Len(equipment_log) : equipment_log[i] = "included" })
        /\ \A k \in 1..Len(equipment_results) :
              LET result == equipment_results[k]
                  t == result.freeze_end_tick
                  Q == QualifyingAt(t, result.bonus_event.bonus_amount)
              IN  /\ Q /= {}
                  /\ UsersOf(result.equipment_data) = Q
                  /\ Len(result.equipment_data) = Cardinality(Q)
                  /\ result.qualifying_players_count = Cardinality(Q)
                  /\ result.qualifying_players_count + result.filtered_players_count
                        = Cardinality(SampledCT(t))
        /\ \A j \in 1..Len(equipment_entries) :
              equipment_entries[j].user_id
                  \in QualifyingAt(equipment_entries[j].freeze_end_tick,
                                   equipment_entries[j].bonus_info.bonus_amount)
        /\ \A j \in 1..Len(kills_results) :
              kills_results[j].equipment_info.user_id
                  \in QualifyingAt(kills_results[j].equipment_info.freeze_end_tick,
                                   kills_results[j].equipment_info.bonus_info.bonus_amount)
        /\ \A j \in 1..Len(utility_results) :
              utility_results[j].equipment_info.user_id
                  \in QualifyingAt(utility_results[j].equipment_info.freeze_end_tick,
                                   utility_results[j].equipment_info.bonus_info.bonus_amount)

\* A finished run whose first event had no qualifying player and whose second
\* event kept some of its sampled players and left others out.
C20_FilteredEventAndPartialEvent ==
    /\ pc = "done"
    /\ ~batch.equip_raises
    /\ Len(equipment_log) = 2
    /\ equipment_log[1] = "filtered_out"
    /\ equipment_log[2] = "included"
    /\ Len(equipment_results) = 1
    /\ equipment_results[1].qualifying_players_count > 0
    /\ equipment_results[1].filtered_players_count > 0
    /\ kills_results /= <<>>


-----------------------------------------------------------------------------
(* Properties of the kills and utility stages                               *)

\* One token equals, contains or is contained in the other.
TokensMatch(a, b) == a = b \/ str_in(a, b) \/ str_in(b, a)

\* The inventory entries of a snapshot whose token matches the token of the
\* weapon of a kill.
EntriesMatching(entry, kill) ==
    { k \in 1..Len(entry.inventory) :
        TokensMatch(kills_normalize_weapon_name(entry.inventory[k]),
                    kills_normalize_weapon_name(kill.weapon)) }

\* The kill details recorded for a snapshot that were built from row m of
\* death_events.
DetailsOf(entry, m) ==
    { d \in UNION { { kills_results[i].kills_analysis.kill_details[j] :
                        j \in 1..Len(kills_results[i].kills_analysis.kill_details) } :
                    i \in { k \in 1..Len(kills_results) :
                              kills_results[k].equipment_info = entry } } :
        d.index = m }

\* C21: a kill by the snapshot's player in the snapshot's round is attributed
\* if and only if some inventory entry's token equals, contains or is contained
\* in the kill weapon's token; its record carries the raw kill weapon and the
\* raw name of the first such entry in inventory order.
C21_KillMatchedOnFirstEntry ==
    "kills" \in batch.ran =>
        \A i \in 1..Len(equipment_entries) :
            LET entry == equipment_entries[i]
            IN  ~entry_raises(entry) =>
                \A m \in 1..Len(death_events) :
                    (/\ death_events[m].total_rounds_played = entry.round_number
                     /\ death_events[m].attacker_user_id = entry.user_id) =>
                        LET hits == EntriesMatching(entry, death_events[m])
                        IN  /\ DetailsOf(entry, m) /= {} <=> hits /= {}
                            /\ \A d \in DetailsOf(entry, m) :
                                  /\ d.weapon_used = death_events[m].weapon
                                  /\ d.weapon_from_inventory =
                                        entry.inventory[CHOOSE k \in hits :
                                                            \A l \in hits : k <= l]

\* A kill with m4a1 attributed to "M4A1-S", the first entry of the inventory,
\* whose token only contains the kill's token, while the later entry "M4A4" has
\* that very token; and a kill of the same player with ak47 left out.
C21_FirstEntryBeforeExactOne ==
    /\ pc = "done"
    /\ \E i \in 1..Len(kills_results) :
          LET info == kills_results[i].equipment_info
              details == kills_results[i].kills_analysis.kill_details
          IN  /\ info.inventory = <<"M4A1-S", "M4A4">>
              /\ Len(details) = 1
              /\ details[1].weapon_used = "m4a1"
              /\ details[1].weapon_from_inventory = "M4A1-S"
              /\ \E m \in 1..Len(death_events) :
                    /\ death_events[m].attacker_user_id = info.user_id
                    /\ death_events[m].total_rounds_played = info.round_number
                    /\ death_events[m].weapon = "ak47"


\* The item's raw name contains "grenade" and its token is none of hegrenade,
\* incgrenade, molotov, flashbang.
FallbackGrenade(item) ==
    /\ str_in("grenade", str_lower(item))
    /\ util_normalize_weapon_name(item) \notin {"hegrenade", "incgrenade", "molotov", "flashbang"}

\* The entries of the inventory that belong to the utility subset.
UtilitySubset(inventory) ==
    { k \in 1..Len(inventory) :
        \/ util_normalize_weapon_name(inventory[k])
              \in {"hegrenade", "incgrenade", "molotov", "flashbang"}
        \/ FallbackGrenade(inventory[k]) }

\* The damage events recorded for a snapshot that were built from row m of
\* hurt_events.
DamageOf(entry, m) ==
    { d \in UNION { { utility_results[i].utility_analysis.utility_damage_events[j] :
                        j \in 1..Len(utility_results[i].utility_analysis.utility_damage_events) } :
                    i \in { k \in 1..Len(utility_results) :
                              utility_results[k].equipment_info = entry } } :
        d.index = m }

\* C22: for a snapshot whose utility subset holds only items that are in it
\* for having "grenade" in their name, the HE grenade damage its player dealt
\* in its round is attributed to it.
C22_FallbackGrenadeIsHEClass ==
    "utility" \in batch.ran =>
        \A i \in 1..Len(equipment_entries) :
            LET entry == equipment_entries[i]
                subset == UtilitySubset(entry.inventory)
            IN  (/\ subset /= {}
                 /\ \A k \in subset : FallbackGrenade(entry.inventory[k])) =>
                    \A m \in 1..Len(hurt_events) :
                        (/\ hurt_events[m].total_rounds_played = entry.round_number
                         /\ hurt_events[m].attacker_user_id = entry.user_id
                         /\ util_normalize_weapon_name(hurt_events[m].weapon) = "hegrenade") =>
                            DamageOf(entry, m) /= {}


\* The rows of hurt_events that the statement of C23 attributes to a snapshot.
DamageRows(entry) ==
    { m \in 1..Len(hurt_events) :
        /\ hurt_events[m].total_rounds_played = entry.round_number
        /\ hurt_events[m].attacker_user_id = entry.user_id
        /\ util_normalize_weapon_name(hurt_events[m].weapon)
              \in {"hegrenade", "incgrenade", "molotov"}
        /\ \E k \in UtilitySubset(entry.inventory) :
              util_normalize_weapon_name(entry.inventory[k])
                  = util_normalize_weapon_name(hurt_events[m].weapon) }

\* Health plus armor damage of the rows of S.
RECURSIVE DamageSum(_)
DamageSum(S) ==
    IF S = {} THEN 0
    ELSE LET m == CHOOSE x \in S : TRUE
         IN  hurt_events[m].dmg_health + hurt_events[m].dmg_armor + DamageSum(S \ {m})

\* C23: a damage event is attributed to a snapshot if and only if it is by the
\* snapshot's player in the snapshot's round, its token is hegrenade, incgrenade
\* or molotov and an item of the snapshot's utility subset has that token; a
\* snapshot without utility subset has no record; each attributed event carries
\* health + armor damage, and the record's totals are their sum and the number
\* of distinct victims.
C23_UtilityDamageAttribution ==
    "utility" \in batch.ran =>
        /\ \A i \in 1..Len(equipment_entries) :
              LET entry == equipment_entries[i]
              IN  /\ \A m \in 1..Len(hurt_events) :
                        /\ DamageOf(entry, m) /= {} <=> m \in DamageRows(entry)
                        /\ \A d \in DamageOf(entry, m) :
                              d.total_damage
                                  = hurt_events[m].dmg_health + hurt_events[m].dmg_armor
                  /\ UtilitySubset(entry.inventory) = {} => entry \notin UtilityRecorded
        /\ \A i \in 1..Len(utility_results) :
              LET analysis == utility_results[i].utility_analysis
                  rows == DamageRows(utility_results[i].equipment_info)
              IN  /\ Len(analysis.utility_damage_events) = Cardinality(rows)
                  /\ analysis.total_utility_damage = DamageSum(rows)
                  /\ analysis.total_enemies_damaged
                        = Cardinality({ hurt_events[m].user_user_id : m \in rows })

\* A record of a snapshot holding "HE Grenade" whose player hurt with an
\* incendiary grenade, which is left out, and with an HE grenade, which is
\* attributed with 30 + 5 damage.
C23_OneOfTwoDamageEvents ==
    /\ pc = "done"
    /\ \E i \in 1..Len(utility_results) :
          LET info == utility_results[i].equipment_info
              analysis == utility_results[i].utility_analysis
          IN  /\ info.inventory = <<"HE Grenade", "Flashbang">>
              /\ Len(hurt_events) = 2
              /\ hurt_events[1].weapon = "incgrenade"
              /\ hurt_events[1].attacker_user_id = info.user_id
              /\ hurt_events[2].weapon = "hegrenade"
              /\ Len(analysis.utility_damage_events) = 1
              /\ analysis.utility_damage_events[1].index = 2
              /\ analysis.total_utility_damage = 35
              /\ analysis.total_enemies_damaged = 1


\* The flash assists recorded for a snapshot that were built from row m of
\* player_blind_events.
FlashesOf(entry, m) ==
    { f \in UNION { { utility_results[i].utility_analysis.flash_assist_events[j] :
                        j \in 1..Len(utility_results[i].utility_analysis.flash_assist_events) } :
                    i \in { k \in 1..Len(utility_results) :
                              utility_results[k].equipment_info = entry } } :
        f.index = m }

\* The snapshot's utility subset holds an item whose token is flashbang.
HoldsFlashbang(entry) ==
    \E k \in UtilitySubset(entry.inventory) :
        util_normalize_weapon_name(entry.inventory[k]) = "flashbang"

\* C24: a blind event is attributed to a snapshot if and only if the
\* snapshot's utility subset holds a flashbang and the event is by the
\* snapshot's player, in the snapshot's round, on a victim of another team; a
\* blind of a teammate or of the player themself is never attributed.
C24_FlashAssistGating ==
    "utility" \in batch.ran =>
        \A i \in 1..Len(equipment_entries) :
            LET entry == equipment_entries[i]
            IN  \A m \in 1..Len(player_blind_events) :
                    LET blind == player_blind_events[m]
                    IN  /\ FlashesOf(entry, m) /= {} <=>
                              /\ HoldsFlashbang(entry)
                              /\ blind.attacker_user_id = entry.user_id
                              /\ blind.total_rounds_played = entry.round_number
                              /\ blind.user_team_name /= blind.attacker_team_name
                        /\ (\/ blind.user_user_id = entry.user_id
                            \/ blind.user_team_name = blind.attacker_team_name) =>
                              FlashesOf(entry, m) = {}

\* A record of a snapshot holding a flashbang with the two blinds of enemy 6
\* attributed, while its player's blinds of teammate 3 and of themself are not.
C24_EnemyBlindsOnly ==
    /\ pc = "done"
    /\ Len(player_blind_events) = 4
    /\ player_blind_events[3].user_team_name = player_blind_events[3].attacker_team_name
    /\ player_blind_events[4].user_user_id = player_blind_events[4].attacker_user_id
    /\ \E i \in 1..Len(utility_results) :
          LET info == utility_results[i].equipment_info
              flashes == utility_results[i].utility_analysis.flash_assist_events
          IN  /\ info.user_id = player_blind_events[4].attacker_user_id
              /\ { flashes[j].index : j \in 1..Len(flashes) } = {1, 2}


\* C25: the number of flashed enemies of a record is the number of distinct
\* victim ids among its flash assists.
C25_FlashedEnemiesAreDistinct ==
    \A i \in 1..Len(utility_results) :
        LET analysis == utility_results[i].utility_analysis
        IN  analysis.total_enemies_flashed
                = Cardinality({ analysis.flash_assist_events[j].victim_user_id :
                                  j \in 1..Len(analysis.flash_assist_events) })


-----------------------------------------------------------------------------
(* Properties of the order of the stages                                    *)

\* C26: detection starts with no stage run, snapshot extraction with detection
\* run and nothing else, kill attribution after these two, utility attribution
\* after these three, and the combination after all four and before main.main
\* has returned; no step runs more than one stage.
C26_StagesInOrder ==
    [][/\ AnalyzeAllDemos => batch.ran = {}
       /\ AnalyzeEquipment => batch.ran = {"bonus"}
       /\ AnalyzeKills => batch.ran = {"bonus", "equipment"}
       /\ AnalyzeUtility => batch.ran = {"bonus", "equipment", "kills"}
       /\ CombineResults => (batch.ran = Stages /\ batch.exit = None)
       /\ Cardinality(batch.ran' \ batch.ran) <= 1
       /\ batch.ran \subseteq batch.ran']_vars

\* A finished run in which every stage left results for the next one.
C26_AllStagesLeftResults ==
    /\ pc = "done"
    /\ batch.ran = Stages
    /\ batch.exit = 0
    /\ bonus_results /= <<>>
    /\ equipment_results /= <<>>
    /\ kills_results /= <<>>
    /\ utility_results /= <<>>


-----------------------------------------------------------------------------
(* Properties of the artifact names                                         *)

\* C27: the name a filename generator returns for a match is not already in
\* existing_filenames, so no match written in one stage run overwrites the
\* artifact of another.
C27_ReturnedNameIsNew ==
    [][SaveMatch =>
          files'.written[Len(files'.written)] \notin files.existing_filenames]_vars


-----------------------------------------------------------------------------
(* Properties of the two canonicalizers taken together                      *)

\* C28: kills_compile.normalize_weapon_name and
\* util_compile.normalize_weapon_name return the same token for every item
\* name.
C28_CanonicalizersAgree ==
    canon.stage >= 1 =>
        kills_normalize_weapon_name(canon.name) = util_normalize_weapon_name(canon.name)


-----------------------------------------------------------------------------
(* Properties of attribution across the events of a round                   *)

\* The records of kills_results that hold a detail built from row m of
\* death_events.
RecordsOfKill(m) ==
    { i \in 1..Len(kills_results) :
        \E j \in 1..Len(kills_results[i].kills_analysis.kill_details) :
            kills_results[i].kills_analysis.kill_details[j].index = m }

\* C29: no two snapshots passed to attribution share their round and player,
\* and each kill is attributed to at most one record.
C29_NoDoubleAttribution ==
    NothingFails =>
        /\ \A i, j \in 1..Len(equipment_entries) :
              i /= j =>
                  <<equipment_entries[i].round_number, equipment_entries[i].user_id>>
                      /= <<equipment_entries[j].round_number, equipment_entries[j].user_id>>
        /\ \A m \in 1..Len(death_events) : Cardinality(RecordsOfKill(m)) <= 1


-----------------------------------------------------------------------------
(* Properties of the victims of attributed events                           *)

\* The victim of an event row is on the other team than its attacker.
IsOpponent(row) ==
    /\ row.user_team_name /= row.attacker_team_name
    /\ row.user_user_id /= row.attacker_user_id

\* C30: every attributed utility damage event and every attributed kill has a
\* victim on the other team than the snapshot's player, and
\* total_enemies_damaged counts such victims only.
C30_VictimsAreOpponents ==
    NothingFails =>
        /\ \A i \in 1..Len(utility_results) :
              LET analysis == utility_results[i].utility_analysis
                  events == analysis.utility_damage_events
              IN  /\ \A j \in 1..Len(events) : IsOpponent(hurt_events[events[j].index])
                  /\ analysis.total_enemies_damaged =
                        Cardinality({ hurt_events[m].user_user_id :
                            m \in { n \in DamageRows(utility_results[i].equipment_info) :
                                      IsOpponent(hurt_events[n]) } })
        /\ \A i \in 1..Len(kills_results) :
              LET details == kills_results[i].kills_analysis.kill_details
              IN  \A j \in 1..Len(details) : IsOpponent(death_events[details[j].index])

=============================================================================
